---- MODULE Spec2Model ----
(***************************************************************************)
(* gh-autoprofile: the pin registry (internal/config/pins.go), the         *)
(* managed blocks of the per-directory .envrc file and of the shell        *)
(* startup file, and the quoting of the activation line                    *)
(* (internal/direnv/direnv.go), the shell hook of an interactive session   *)
(* (hook.sh, internal/direnv/shell/gh-autoprofile.sh), and pin and unpin   *)
(* commands running in several terminal sessions at once.                  *)
(*                                                                         *)
(* A Go string is a sequence of characters.  A path string is a record     *)
(* [abs, segs]: whether it starts with "/" and its "/"-separated elements. *)
(***************************************************************************)
EXTENDS Naturals, Integers, Sequences, FiniteSets, TLC

VARIABLES
    registry,   \* PinRegistry.Pins of the running process
    pinsFile,   \* the pins.yml file: [exists, perm, data]
    configDir,  \* the directory holding pins.yml: [exists, perm]
    envrc,      \* the .envrc file of each directory: [exists, perm, data]
    rcFile,     \* the shell startup file of the user: [exists, perm, data]
    pc,         \* position of the process within a command
    shell,      \* an interactive shell session that has sourced the hook
    sess,       \* the gh-autoprofile processes of several terminal sessions
    call        \* the last operation: its name, arguments, pre-state, results

vars == <<registry, pinsFile, configDir, envrc, rcFile, pc, shell, sess, call>>

----------------------------------------------------------------------------
(* Bounds *)

MaxPins == 2        \* registry entries
MaxPathLen == 1     \* elements of a path given as input
MaxInitLen == 2     \* characters of an .envrc file written by the user
MaxFileLen == 23    \* characters of an .envrc file
MaxStrLen == 3      \* characters of a string given to shellQuote

----------------------------------------------------------------------------
(* Generic helpers *)

SeqsUpTo(S, n) == UNION {[1..k -> S] : k \in 0..n}

RemoveAt(s, i) == SubSeq(s, 1, i - 1) \o SubSeq(s, i + 1, Len(s))

----------------------------------------------------------------------------
(* Paths: filepath.Abs *)

Cwd == <<"a">>              \* working directory of the process, "/a"

PathSegs == {"a", ".."}

PathInputs == [abs : BOOLEAN, segs : SeqsUpTo(PathSegs, MaxPathLen)]

RECURSIVE CleanFrom(_, _)
CleanFrom(acc, segs) ==
    IF segs = <<>> THEN acc
    ELSE LET s == Head(segs) IN
         IF s = "." \/ s = "" THEN CleanFrom(acc, Tail(segs))
         ELSE IF s = ".."
              THEN CleanFrom(IF acc = <<>> THEN acc ELSE SubSeq(acc, 1, Len(acc) - 1),
                             Tail(segs))
              ELSE CleanFrom(Append(acc, s), Tail(segs))

\* filepath.Clean of a rooted path
Clean(segs) == CleanFrom(<<>>, segs)

\* filepath.Abs: an absolute path is cleaned, a relative one is joined to the
\* working directory and cleaned.  os.Getwd is taken to succeed.
Abs(p) == [abs |-> TRUE, segs |-> IF p.abs THEN Clean(p.segs) ELSE Clean(Cwd \o p.segs)]

IsPrefix(s, t) == Len(s) <= Len(t) /\ SubSeq(t, 1, Len(s)) = s

\* d1 is a strict ancestor of d2 (both canonical)
StrictAncestor(d1, d2) == d1 # d2 /\ IsPrefix(d1.segs, d2.segs)

----------------------------------------------------------------------------
(* Pins *)

ModeWrapper == "wrapper"
ModeExport == "export"

EffectiveMode(p) == IF p.Mode = "" THEN ModeWrapper ELSE p.Mode

Users == {<<"a">>, <<"b">>}
Modes == {"", ModeWrapper, ModeExport}

PlainPin == [User |-> <<"a">>, Mode |-> "", GitEmail |-> <<>>, GitName |-> <<>>, SSHKey |-> <<>>]

FieldNames == {"User", "Mode", "GitEmail", "GitName", "SSHKey"}

\* the plain pin and the pins that differ from it in one field
PinFields ==
    {PlainPin} \cup
    {[PlainPin EXCEPT !.User = u] : u \in Users} \cup
    {[PlainPin EXCEPT !.Mode = m] : m \in Modes} \cup
    {[PlainPin EXCEPT !.GitEmail = e] : e \in {<<>>, <<"e">>}} \cup
    {[PlainPin EXCEPT !.GitName = n] : n \in {<<>>, <<"n">>}} \cup
    {[PlainPin EXCEPT !.SSHKey = k] : k \in {<<>>, <<"k">>}}

WithDir(f, d) ==
    [User |-> f.User, Dir |-> d, Mode |-> f.Mode,
     GitEmail |-> f.GitEmail, GitName |-> f.GitName, SSHKey |-> f.SSHKey]

PinInputs == {WithDir(f, d) : f \in PinFields, d \in PathInputs}

----------------------------------------------------------------------------
(* Registry methods *)

\* index of the first entry whose Dir equals d, 0 if none
IndexOfDir(pins, d) ==
    IF \E i \in 1..Len(pins) : pins[i].Dir = d
    THEN CHOOSE i \in 1..Len(pins) :
            /\ pins[i].Dir = d
            /\ \A j \in 1..(i - 1) : pins[j].Dir # d
    ELSE 0

\* first entry whose Dir is dir or an ancestor of dir
FindPinInherited(pins, dir) ==
    LET d == Abs(dir)
        hit(i) == IsPrefix(pins[i].Dir.segs, d.segs)
    IN IF \E i \in 1..Len(pins) : hit(i)
       THEN CHOOSE i \in 1..Len(pins) : hit(i) /\ \A j \in 1..(i - 1) : ~hit(j)
       ELSE 0

\* FindPin returns a pointer into Pins: the index of the entry, 0 for nil
FindPin(pins, dir) == IndexOfDir(pins, Abs(dir))

AddPinMerge(pins, pin) ==
    LET p == [pin EXCEPT !.Dir = Abs(pin.Dir)]
        i == IndexOfDir(pins, p.Dir)
        old == pins[i]
        m == [f \in DOMAIN p |->
                IF f \in {"GitEmail", "GitName", "SSHKey"} /\ p[f] = <<>>
                THEN old[f] ELSE p[f]]
    IN IF i # 0 THEN [pins EXCEPT ![i] = m] ELSE Append(pins, p)

AddPinAppendOnly(pins, pin) == Append(pins, [pin EXCEPT !.Dir = Abs(pin.Dir)])

AddPinMoveToEnd(pins, pin) ==
    LET p == [pin EXCEPT !.Dir = Abs(pin.Dir)]
        i == IndexOfDir(pins, p.Dir)
    IN IF i # 0 THEN Append(RemoveAt(pins, i), p) ELSE Append(pins, p)

AddPinPrepend(pins, pin) ==
    LET p == [pin EXCEPT !.Dir = Abs(pin.Dir)]
        i == IndexOfDir(pins, p.Dir)
    IN IF i # 0 THEN [pins EXCEPT ![i] = p] ELSE <<p>> \o pins

AddPin(pins, pin) ==
    LET p == [pin EXCEPT !.Dir = Abs(pin.Dir)]
        i == IndexOfDir(pins, p.Dir)
    IN IF i # 0 THEN [pins EXCEPT ![i] = p] ELSE Append(pins, p)

RemovePinLast(pins, dir) ==
    LET i == IndexOfDir(pins, Abs(dir))
    IN IF i # 0 THEN [pins |-> SubSeq(pins, 1, Len(pins) - 1), removed |-> TRUE]
       ELSE [pins |-> pins, removed |-> FALSE]

RemovePin(pins, dir) ==
    LET i == IndexOfDir(pins, Abs(dir))
    IN IF i # 0 THEN [pins |-> RemoveAt(pins, i), removed |-> TRUE]
       ELSE [pins |-> pins, removed |-> FALSE]

----------------------------------------------------------------------------
(* State *)

NoFile == [exists |-> FALSE, perm |-> 0, data |-> <<>>]
NoDir == [exists |-> FALSE, perm |-> 0]

NoPin == [User |-> <<>>, Dir |-> [abs |-> FALSE, segs |-> <<>>], Mode |-> "",
          GitEmail |-> <<>>, GitName |-> <<>>, SSHKey |-> <<>>]
NoPath == [abs |-> FALSE, segs |-> <<>>]

NoCall == [op |-> "none", pin |-> NoPin, dir |-> NoPath, before |-> <<>>,
           file |-> NoFile, idx |-> 0, ok |-> FALSE, arg |-> <<>>, out |-> <<>>]

\* a shell session right after it has sourced hook.sh
NoShell ==
    [env |-> [user |-> <<>>, token |-> <<>>],
     saved |-> <<>>,
     mode |-> "",
     loaded |-> TRUE,
     hooks |-> 1,
     hook |-> [lastUser |-> <<>>, lastHasToken |-> <<>>,
               gh |-> FALSE, git |-> FALSE, branch |-> "none"],
     wpc |-> "prompt",
     cmd |-> [name |-> "", args |-> <<>>],
     wtoken |-> <<>>,
     warned |-> FALSE,
     child |-> [name |-> "", args |-> <<>>, token |-> <<>>, wrapped |-> FALSE],
     hist |-> [cycles |-> 0,
               obs |-> [user |-> <<>>, has |-> <<>>],
               prev |-> [user |-> <<>>, has |-> <<>>],
               before |-> [lastUser |-> <<>>, lastHasToken |-> <<>>,
                           gh |-> FALSE, git |-> FALSE, branch |-> "none"],
               trace |-> <<>>,
               onScript |-> TRUE]]

\* no terminal session runs a command
NoSess == <<>>

EnvrcDirs == {[abs |-> TRUE, segs |-> <<"a">>]}

InitFiles ==
    /\ pinsFile = NoFile
    /\ configDir = NoDir
    /\ envrc = [d \in EnvrcDirs |-> NoFile]

----------------------------------------------------------------------------
(* The registry as a data structure: a caller that applies any sequence of *)
(* AddPin, RemovePin and FindPin to one PinRegistry value, starting from   *)
(* the empty registry.  call holds the method that has just run until the  *)
(* caller goes on.                                                         *)

InitRegistry ==
    /\ registry = <<>>
    /\ shell = NoShell
    /\ sess = NoSess
    /\ InitFiles
    /\ pc = "caller"
    /\ rcFile = NoFile
    /\ call = NoCall

DoAddPin(pin) ==
    /\ pc = "caller"
    /\ Len(AddPin(registry, pin)) <= MaxPins
    /\ registry' = AddPin(registry, pin)
    /\ call' = [NoCall EXCEPT !.op = "AddPin", !.pin = pin, !.before = registry]
    /\ pc' = "returned"
    /\ UNCHANGED <<pinsFile, configDir, envrc, rcFile, shell, sess>>

DoRemovePin(dir) ==
    /\ pc = "caller"
    /\ registry' = RemovePin(registry, dir).pins
    /\ call' = [NoCall EXCEPT !.op = "RemovePin", !.dir = dir, !.before = registry,
                              !.ok = RemovePin(registry, dir).removed]
    /\ pc' = "returned"
    /\ UNCHANGED <<pinsFile, configDir, envrc, rcFile, shell, sess>>

DoFindPin(dir) ==
    /\ pc = "caller"
    /\ call' = [NoCall EXCEPT !.op = "FindPin", !.dir = dir, !.before = registry,
                              !.idx = FindPin(registry, dir)]
    /\ pc' = "returned"
    /\ UNCHANGED <<registry, pinsFile, configDir, envrc, rcFile, shell, sess>>

\* the caller has read the result
Return ==
    /\ pc = "returned"
    /\ pc' = "caller"
    /\ call' = NoCall
    /\ UNCHANGED <<registry, pinsFile, configDir, envrc, rcFile, shell, sess>>

NextRegistry ==
    \/ \E pin \in PinInputs : DoAddPin(pin)
    \/ \E dir \in PathInputs : DoRemovePin(dir)
    \/ \E dir \in PathInputs : DoFindPin(dir)
    \/ Return

SpecRegistry == InitRegistry /\ [][NextRegistry]_vars

----------------------------------------------------------------------------
(* pins.yml: yaml.Marshal / yaml.Unmarshal of the registry, the file system *)

Perm0600 == 384
Perm0700 == 448

\* one "key: value" line per field, a field tagged omitempty only when set
KeyLine(key, value, omitempty, zero) ==
    IF omitempty /\ value = zero THEN <<>> ELSE <<<<key, value>>>>

MarshalPinNoKey(p) ==
    KeyLine("user", p.User, FALSE, <<>>) \o
    KeyLine("dir", p.Dir, FALSE, <<>>) \o
    KeyLine("mode", p.Mode, TRUE, "") \o
    KeyLine("git_email", p.GitEmail, TRUE, <<>>) \o
    KeyLine("git_name", p.GitName, TRUE, <<>>)

MarshalPin(p) ==
    KeyLine("user", p.User, FALSE, <<>>) \o
    KeyLine("dir", p.Dir, FALSE, <<>>) \o
    KeyLine("mode", p.Mode, TRUE, "") \o
    KeyLine("git_email", p.GitEmail, TRUE, <<>>) \o
    KeyLine("git_name", p.GitName, TRUE, <<>>) \o
    KeyLine("ssh_key", p.SSHKey, TRUE, <<>>)

Marshal(pins) == [i \in 1..Len(pins) |-> MarshalPin(pins[i])]

\* the value of a key in a mapping, the field's zero value when absent
Lookup(lines, key, zero) ==
    IF \E i \in 1..Len(lines) : lines[i][1] = key
    THEN lines[CHOOSE i \in 1..Len(lines) : lines[i][1] = key][2]
    ELSE zero

UnmarshalPin(lines) ==
    [User |-> Lookup(lines, "user", <<>>),
     Dir |-> Lookup(lines, "dir", NoPath),
     Mode |-> Lookup(lines, "mode", ""),
     GitEmail |-> Lookup(lines, "git_email", <<>>),
     GitName |-> Lookup(lines, "git_name", <<>>),
     SSHKey |-> Lookup(lines, "ssh_key", <<>>)]

Unmarshal(data) == [i \in 1..Len(data) |-> UnmarshalPin(data[i])]

\* os.ReadFile; fault: the file exists and cannot be read
ReadFile(f, fault) ==
    IF ~f.exists THEN [err |-> "notexist", data |-> <<>>]
    ELSE IF fault THEN [err |-> "other", data |-> <<>>]
    ELSE [err |-> "", data |-> f.data]

\* os.WriteFile: the permission applies only when the file is created
WriteFile(f, data, perm) ==
    [exists |-> TRUE, perm |-> IF f.exists THEN f.perm ELSE perm, data |-> data]

\* os.MkdirAll: an existing directory is left as it is
MkdirAll(d, perm) == IF d.exists THEN d ELSE [exists |-> TRUE, perm |-> perm]

\* yaml.Unmarshal fails on a record that is not a mapping of the known keys
Parses(data) == \A i \in 1..Len(data) : \A j \in 1..Len(data[i]) : data[i][j][1] # "?"

LoadPinsStrict(f, fault) ==
    LET r == ReadFile(f, fault)
    IN IF r.err # "" THEN [ok |-> FALSE, pins |-> <<>>]
       ELSE [ok |-> TRUE, pins |-> Unmarshal(r.data)]

\* LoadPins: [ok, pins]
LoadPins(f, fault) ==
    LET r == ReadFile(f, fault)
    IN IF r.err # ""
       THEN IF r.err = "notexist" THEN [ok |-> TRUE, pins |-> <<>>]
            ELSE [ok |-> FALSE, pins |-> <<>>]
       ELSE IF ~Parses(r.data) THEN [ok |-> FALSE, pins |-> <<>>]
       ELSE [ok |-> TRUE, pins |-> Unmarshal(r.data)]

\* SavePins: [ok, dir, file]; mkdirFault, writeFault: the call fails and
\* changes nothing
SavePins(pins, d, f, mkdirFault, writeFault) ==
    IF mkdirFault THEN [ok |-> FALSE, dir |-> d, file |-> f]
    ELSE IF writeFault THEN [ok |-> FALSE, dir |-> MkdirAll(d, Perm0700), file |-> f]
    ELSE [ok |-> TRUE, dir |-> MkdirAll(d, Perm0700),
          file |-> WriteFile(f, Marshal(pins), Perm0600)]

----------------------------------------------------------------------------
(* The registry on disk: processes that load the registry, change it by   *)
(* one AddPin or RemovePin and save it, one after the other.               *)

\* runPin and runUnpin pass the directory they resolved with filepath.Abs
StoreDirs == {Abs(d) : d \in PathInputs}

StorePins == {WithDir(f, d) : f \in PinFields, d \in StoreDirs}

StoreFaults == {"", "mkdir", "write"}

InitStore ==
    /\ registry = <<>>
    /\ shell = NoShell
    /\ sess = NoSess
    /\ pinsFile = NoFile
    /\ configDir = NoDir
    /\ envrc = [d \in EnvrcDirs |-> NoFile]
    /\ pc = "start"
    /\ rcFile = NoFile
    /\ call = NoCall

\* a new process starts and loads the registry
StoreLoad(fault) ==
    /\ pc \in {"start", "saved"}
    /\ fault => pinsFile.exists
    /\ LET r == LoadPins(pinsFile, fault) IN
       /\ registry' = r.pins
       /\ pc' = IF r.ok THEN "loaded" ELSE "start"
       /\ call' = [NoCall EXCEPT !.op = "LoadPins", !.ok = r.ok]
    /\ UNCHANGED <<pinsFile, configDir, envrc, rcFile, shell, sess>>

StoreAddPin(pin) ==
    /\ pc = "loaded"
    /\ Len(AddPin(registry, pin)) <= MaxPins
    /\ registry' = AddPin(registry, pin)
    /\ pc' = "mutated"
    /\ call' = [NoCall EXCEPT !.op = "AddPin", !.pin = pin, !.before = registry]
    /\ UNCHANGED <<pinsFile, configDir, envrc, rcFile, shell, sess>>

StoreRemovePin(dir) ==
    /\ pc = "loaded"
    /\ registry' = RemovePin(registry, dir).pins
    /\ pc' = "mutated"
    /\ call' = [NoCall EXCEPT !.op = "RemovePin", !.dir = dir, !.before = registry,
                              !.ok = RemovePin(registry, dir).removed]
    /\ UNCHANGED <<pinsFile, configDir, envrc, rcFile, shell, sess>>

StoreSave(fault) ==
    /\ pc = "mutated"
    /\ LET r == SavePins(registry, configDir, pinsFile, fault = "mkdir", fault = "write") IN
       /\ pinsFile' = r.file
       /\ configDir' = r.dir
       /\ pc' = IF r.ok THEN "saved" ELSE "start"
       /\ call' = [NoCall EXCEPT !.op = "SavePins", !.before = registry, !.ok = r.ok]
    /\ UNCHANGED <<registry, envrc, rcFile, shell, sess>>

NextStore ==
    \/ \E fault \in BOOLEAN : StoreLoad(fault)
    \/ \E pin \in StorePins : StoreAddPin(pin)
    \/ \E dir \in StoreDirs : StoreRemovePin(dir)
    \/ \E fault \in StoreFaults : StoreSave(fault)

SpecStore == InitStore /\ [][NextStore]_vars

Perm0644 == 420
Perm0755 == 493

\* the same processes where the configuration directory, or the directory and
\* an empty registry file, exist before the first save with the permissions
\* of an installation that has not been migrated
InitStoreExisting ==
    /\ registry = <<>>
    /\ shell = NoShell
    /\ sess = NoSess
    /\ \E d \in {NoDir, [exists |-> TRUE, perm |-> Perm0755]} :
          /\ configDir = d
          /\ pinsFile \in {NoFile} \cup
                {[exists |-> TRUE, perm |-> Perm0644, data |-> Marshal(<<>>)] :
                    x \in {y \in {d} : y.exists}}
    /\ envrc = [d \in EnvrcDirs |-> NoFile]
    /\ pc = "start"
    /\ rcFile = NoFile
    /\ call = NoCall

SpecStoreExisting == InitStoreExisting /\ [][NextStore]_vars

----------------------------------------------------------------------------
(* Strings of the .envrc file.  "#" stands for the text "# gh-autoprofile:" *)
(* that starts both markers, "s" for "start", "e" for "end", "u" for       *)
(* "use_gh_autoprofile", "x" for "_export"; every other character is       *)
(* itself.  Indices are Go's: from 0, -1 for "not found".                  *)

markerStart == <<"#", "s">>
markerEnd == <<"#", "e">>

NL == "\n"

\* s[lo:hi]
Slice(s, lo, hi) == SubSeq(s, lo + 1, hi)

HasPrefixAt(s, i, sub) == i + Len(sub) <= Len(s) /\ Slice(s, i, i + Len(sub)) = sub

\* strings.Index from position from on
IndexFrom(s, sub, from) ==
    LET hits == {i \in from..Len(s) : HasPrefixAt(s, i, sub)}
    IN IF hits # {}
       THEN CHOOSE i \in hits : \A j \in hits : i <= j
       ELSE -1

\* strings.Index
Index(s, sub) == IndexFrom(s, sub, 0)

\* strings.Contains
Contains(s, sub) == Index(s, sub) # -1

\* strings.HasSuffix
HasSuffix(s, sub) == Len(sub) <= Len(s) /\ Slice(s, Len(s) - Len(sub), Len(s)) = sub

\* strings.Count of a non-empty sub that cannot overlap itself
Count(s, sub) == Cardinality({i \in 0..Len(s) : HasPrefixAt(s, i, sub)})

IsSpace(c) == c \in {" ", NL, "\t", "\r"}

RECURSIVE TrimLeft(_)
TrimLeft(s) == IF s # <<>> /\ IsSpace(Head(s)) THEN TrimLeft(Tail(s)) ELSE s

RECURSIVE TrimRight(_)
TrimRight(s) ==
    IF s # <<>> /\ IsSpace(s[Len(s)]) THEN TrimRight(SubSeq(s, 1, Len(s) - 1)) ELSE s

\* strings.TrimSpace
TrimSpace(s) == TrimRight(TrimLeft(s))

RECURSIVE Join(_, _)
\* strings.Join
Join(strs, sep) ==
    IF strs = <<>> THEN <<>>
    ELSE IF Len(strs) = 1 THEN strs[1]
    ELSE strs[1] \o sep \o Join(Tail(strs), sep)

\* letters, digits, - . _ / @ + :
SafeChars == {"a", "b", "e", "n", "k", "s", "u", "x", "-", ".", "_", "/", "@", "+", ":"}

RECURSIVE ReplaceQuotesBackslash(_)
\* a replacement that puts a backslash before each quote
ReplaceQuotesBackslash(s) ==
    IF s = <<>> THEN <<>>
    ELSE (IF Head(s) = "'" THEN <<"\\", "'">> ELSE <<Head(s)>>)
         \o ReplaceQuotesBackslash(Tail(s))

RECURSIVE ReplaceQuotes(_)
\* strings.ReplaceAll(s, "'", `'\''`)
ReplaceQuotes(s) ==
    IF s = <<>> THEN <<>>
    ELSE (IF Head(s) = "'" THEN <<"'", "\\", "'", "'">> ELSE <<Head(s)>>)
         \o ReplaceQuotes(Tail(s))

\* a shellQuote that leaves the empty string bare
shellQuoteEmptyBare(s) ==
    LET safe == \A i \in 1..Len(s) : s[i] \in SafeChars
    IN IF safe THEN s
       ELSE <<"'">> \o ReplaceQuotes(s) \o <<"'">>

shellQuote(s) ==
    LET safe == \A i \in 1..Len(s) : s[i] \in SafeChars
    IN IF safe /\ Len(s) > 0 THEN s
       ELSE <<"'">> \o ReplaceQuotes(s) \o <<"'">>

----------------------------------------------------------------------------
(* WriteEnvrc, RemoveEnvrc *)

\* a Chmod that changes nothing
ChmodNone(f, perm) == f

\* os.Chmod
Chmod(f, perm) == [f EXCEPT !.perm = perm]

fnName(pin) ==
    IF EffectiveMode(pin) = ModeExport THEN <<"u", "x">> ELSE <<"u">>

\* arguments where every optional field that is set is passed
ArgsEverySet(pin) ==
    <<shellQuote(pin.User)>> \o
    (IF pin.GitEmail # <<>> THEN <<shellQuote(pin.GitEmail)>> ELSE <<>>) \o
    (IF pin.GitName # <<>> THEN <<shellQuote(pin.GitName)>> ELSE <<>>) \o
    (IF pin.SSHKey # <<>> THEN <<shellQuote(pin.SSHKey)>> ELSE <<>>)

\* the arguments of the activation line
Args(pin) ==
    <<shellQuote(pin.User)>> \o
    (IF pin.GitEmail # <<>>
     THEN <<shellQuote(pin.GitEmail)>> \o
          (IF pin.GitName # <<>>
           THEN <<shellQuote(pin.GitName)>> \o
                (IF pin.SSHKey # <<>> THEN <<shellQuote(pin.SSHKey)>> ELSE <<>>)
           ELSE <<>>)
     ELSE <<>>)

\* the managed block
Block(pin) ==
    markerStart \o <<NL>> \o
    fnName(pin) \o <<" ">> \o Join(Args(pin), <<" ">>) \o <<NL>> \o
    markerEnd \o <<NL>>

\* an upsert that repairs a start marker without end marker in place
UpsertRepair(existing, block) ==
    IF Len(existing) > 0
    THEN LET content == existing IN
         IF Contains(content, markerStart)
         THEN LET startIdx == Index(content, markerStart)
                  endIdx == Index(content, markerEnd)
              IN IF endIdx # -1
                 THEN LET endIdx1 == endIdx + Len(markerEnd)
                          endIdx2 == IF endIdx1 < Len(content) /\ content[endIdx1 + 1] = NL
                                     THEN endIdx1 + 1 ELSE endIdx1
                      IN Slice(content, 0, startIdx) \o block \o
                         Slice(content, endIdx2, Len(content))
                 ELSE Slice(content, 0, startIdx) \o block
         ELSE content \o (IF ~HasSuffix(content, <<NL>>) THEN <<NL>> ELSE <<>>) \o block
    ELSE block

\* the new content of an .envrc that holds existing
Upsert(existing, block) ==
    IF Len(existing) > 0
    THEN LET content == existing IN
         IF Contains(content, markerStart)
         THEN LET startIdx == Index(content, markerStart)
                  endIdx == Index(content, markerEnd)
              IN IF endIdx # -1
                 THEN LET endIdx1 == endIdx + Len(markerEnd)
                          endIdx2 == IF endIdx1 < Len(content) /\ content[endIdx1 + 1] = NL
                                     THEN endIdx1 + 1 ELSE endIdx1
                      IN Slice(content, 0, startIdx) \o block \o
                         Slice(content, endIdx2, Len(content))
                 ELSE content \o (IF ~HasSuffix(content, <<NL>>) THEN <<NL>> ELSE <<>>)
                      \o block
         ELSE content \o (IF ~HasSuffix(content, <<NL>>) THEN <<NL>> ELSE <<>>) \o block
    ELSE block

\* WriteEnvrc on the file f: [ok, file]; fault names the call that fails
WriteEnvrc(f, pin, fault) ==
    LET r == ReadFile(f, fault = "read")
        newContent == Upsert(r.data, Block(pin))
    IN IF r.err # "" /\ r.err # "notexist" THEN [ok |-> FALSE, file |-> f]
       ELSE IF fault = "write" THEN [ok |-> FALSE, file |-> f]
       ELSE IF fault = "chmod"
            THEN [ok |-> FALSE, file |-> WriteFile(f, newContent, Perm0600)]
       ELSE [ok |-> TRUE, file |-> Chmod(WriteFile(f, newContent, Perm0600), Perm0600)]

\* os.Remove
Remove(f) == NoFile

\* RemoveEnvrc on the file f: [ok, file]
RemoveEnvrc(f, fault) ==
    LET r == ReadFile(f, fault = "read")
        content == r.data
    IN IF r.err # ""
       THEN IF r.err = "notexist" THEN [ok |-> TRUE, file |-> f]
            ELSE [ok |-> FALSE, file |-> f]
       ELSE IF ~Contains(content, markerStart) THEN [ok |-> TRUE, file |-> f]
       ELSE LET startIdx == Index(content, markerStart)
                endIdx == Index(content, markerEnd)
            IN IF endIdx = -1 THEN [ok |-> TRUE, file |-> f]
               ELSE LET endIdx1 == endIdx + Len(markerEnd)
                        endIdx2 == IF endIdx1 < Len(content) /\ content[endIdx1 + 1] = NL
                                   THEN endIdx1 + 1 ELSE endIdx1
                        newContent == TrimSpace(Slice(content, 0, startIdx) \o
                                                Slice(content, endIdx2, Len(content)))
                    IN IF newContent = <<>>
                       THEN IF fault = "write" THEN [ok |-> FALSE, file |-> f]
                            ELSE [ok |-> TRUE, file |-> Remove(f)]
                       ELSE IF fault = "write" THEN [ok |-> FALSE, file |-> f]
                       ELSE IF fault = "chmod"
                            THEN [ok |-> FALSE,
                                  file |-> WriteFile(f, newContent \o <<NL>>, Perm0600)]
                       ELSE [ok |-> TRUE,
                             file |-> Chmod(WriteFile(f, newContent \o <<NL>>, Perm0600),
                                            Perm0600)]

----------------------------------------------------------------------------
(* The .envrc of one directory: any sequence of WriteEnvrc and RemoveEnvrc *)
(* on a file that is missing or holds text written by the user.            *)

FileChars == {"#", "s", "e", NL, "x"}

EnvrcDir == [abs |-> TRUE, segs |-> <<"a">>]

\* pins that render to different blocks: both entry points, and an email that
\* holds marker text
EnvrcPins ==
    {pin \in [User : {<<"a">>}, Dir : {EnvrcDir}, Mode : {"", ModeExport},
              GitEmail : {<<>>, markerEnd}, GitName : {<<>>}, SSHKey : {<<>>}] :
        pin.Mode = "" \/ pin.GitEmail = <<>>}

Faults == {"", "read", "write", "chmod"}

\* text of the user around a block
UserText == {<<>>, <<"x", NL>>}

\* the content of an .envrc that was managed before
ManagedText ==
    LET pin == [NoPin EXCEPT !.User = <<"a">>, !.Dir = EnvrcDir]
    IN {pre \o Block(pin) \o post : pre \in UserText, post \in UserText}

InitEnvrc ==
    /\ registry = <<>>
    /\ shell = NoShell
    /\ sess = NoSess
    /\ pinsFile = NoFile
    /\ configDir = NoDir
    /\ \E f \in {NoFile} \cup
                {[exists |-> TRUE, perm |-> Perm0644, data |-> t] :
                    t \in SeqsUpTo(FileChars, MaxInitLen) \cup ManagedText} :
          envrc = [d \in EnvrcDirs |-> f]
    /\ pc = "api"
    /\ rcFile = NoFile
    /\ call = NoCall

DoWriteEnvrc(pin, fault) ==
    LET d == pin.Dir
        r == WriteEnvrc(envrc[d], pin, fault)
    IN /\ Len(r.file.data) <= MaxFileLen
       /\ envrc' = [envrc EXCEPT ![d] = r.file]
       /\ call' = IF r.ok
                  THEN [NoCall EXCEPT !.op = "WriteEnvrc", !.pin = pin,
                                      !.file = envrc[d], !.ok = TRUE]
                  ELSE [NoCall EXCEPT !.op = "WriteEnvrc", !.file = envrc[d]]
       /\ UNCHANGED <<registry, pinsFile, configDir, pc, rcFile, shell, sess>>

DoRemoveEnvrc(dir, fault) ==
    LET r == RemoveEnvrc(envrc[dir], fault)
    IN /\ Len(r.file.data) <= MaxFileLen
       /\ envrc' = [envrc EXCEPT ![dir] = r.file]
       /\ call' = [NoCall EXCEPT !.op = "RemoveEnvrc", !.file = envrc[dir],
                                 !.ok = r.ok]
       /\ UNCHANGED <<registry, pinsFile, configDir, pc, rcFile, shell, sess>>

NextEnvrc ==
    \/ \E pin \in EnvrcPins, fault \in Faults : DoWriteEnvrc(pin, fault)
    \/ \E dir \in EnvrcDirs, fault \in Faults : DoRemoveEnvrc(dir, fault)

SpecEnvrc == InitEnvrc /\ [][NextEnvrc]_vars

\* the same operations on an .envrc that is missing or holds no marker text
InitEnvrcClean ==
    /\ InitEnvrc
    /\ \/ ~envrc[EnvrcDir].exists
       \/ /\ ~Contains(envrc[EnvrcDir].data, markerStart)
          /\ ~Contains(envrc[EnvrcDir].data, markerEnd)

SpecEnvrcClean == InitEnvrcClean /\ [][NextEnvrc]_vars

----------------------------------------------------------------------------
(* InjectHookSource: the block of the shell startup file that sources the  *)
(* hook script.  "H" stands for "# gh-autoprofile-hook:" and "S" for       *)
(* "source ".                                                              *)

hookMarkerStart == <<"H", "s">>
hookMarkerEnd == <<"H", "e">>

\* the block that sources hookPath
HookBlock(hookPath) ==
    hookMarkerStart \o <<NL>> \o
    <<"S", "\"">> \o hookPath \o <<"\"">> \o <<NL>> \o
    hookMarkerEnd \o <<NL>>

\* an injection that appends the block without an empty line before it
InjectNoEmptyLine(content, block) ==
    LET startIdx == Index(content, hookMarkerStart)
        endIdx == Index(content, hookMarkerEnd)
    IN IF Contains(content, hookMarkerStart) /\ endIdx # -1
       THEN LET endIdx1 == endIdx + Len(hookMarkerEnd)
                endIdx2 == IF endIdx1 < Len(content) /\ content[endIdx1 + 1] = NL
                           THEN endIdx1 + 1 ELSE endIdx1
            IN Slice(content, 0, startIdx) \o block \o Slice(content, endIdx2, Len(content))
       ELSE LET content1 == IF Len(content) > 0 /\ ~HasSuffix(content, <<NL>>)
                            THEN content \o <<NL>> ELSE content
            IN content1 \o block

\* the new content of a startup file that holds content
Inject(content, block) ==
    LET startIdx == Index(content, hookMarkerStart)
        endIdx == Index(content, hookMarkerEnd)
    IN IF Contains(content, hookMarkerStart) /\ endIdx # -1
       THEN LET endIdx1 == endIdx + Len(hookMarkerEnd)
                endIdx2 == IF endIdx1 < Len(content) /\ content[endIdx1 + 1] = NL
                           THEN endIdx1 + 1 ELSE endIdx1
            IN Slice(content, 0, startIdx) \o block \o Slice(content, endIdx2, Len(content))
       ELSE LET content1 == IF Len(content) > 0 /\ ~HasSuffix(content, <<NL>>)
                            THEN content \o <<NL>> ELSE content
            IN content1 \o <<NL>> \o block

\* InjectHookSource on the file f: [ok, file]; fault names the call that fails
InjectHookSource(f, hookPath, fault) ==
    LET r == ReadFile(f, fault = "read")
        content == Inject(r.data, HookBlock(hookPath))
    IN IF r.err # "" /\ r.err # "notexist" THEN [ok |-> FALSE, file |-> f]
       ELSE IF fault = "write" THEN [ok |-> FALSE, file |-> f]
       ELSE [ok |-> TRUE, file |-> WriteFile(f, content, Perm0644)]

----------------------------------------------------------------------------
(* The files setup and pin write: any sequence of InjectHookSource on the  *)
(* shell startup file and WriteEnvrc on an .envrc without markers.         *)

RcChars == {"H", "s", "e", NL, "x"}

HookPaths == {<<"h">>, <<"g">>}

HookFaults == {"", "read", "write"}

\* the pins of the setup session: one per entry point
HookPins == {pin \in EnvrcPins : pin.GitEmail = <<>>}

InitHook ==
    /\ registry = <<>>
    /\ shell = NoShell
    /\ sess = NoSess
    /\ pinsFile = NoFile
    /\ configDir = NoDir
    /\ \E f \in {NoFile} \cup
                {[exists |-> TRUE, perm |-> Perm0644, data |-> t] :
                    t \in {<<>>, <<"x">>, <<"x", NL>>}} :
          envrc = [d \in EnvrcDirs |-> f]
    /\ rcFile \in {NoFile} \cup
                  {[exists |-> TRUE, perm |-> Perm0644, data |-> t] :
                      t \in SeqsUpTo(RcChars, MaxInitLen)}
    /\ pc = "api"
    /\ call = NoCall

DoInjectHookSource(hookPath, fault) ==
    LET r == InjectHookSource(rcFile, hookPath, fault)
    IN /\ Len(r.file.data) <= MaxFileLen
       /\ rcFile' = r.file
       /\ call' = [NoCall EXCEPT !.op = "InjectHookSource", !.arg = hookPath,
                                 !.file = rcFile, !.ok = r.ok]
       /\ UNCHANGED <<registry, pinsFile, configDir, envrc, pc, shell, sess>>

NextHook ==
    \/ \E hookPath \in HookPaths, fault \in HookFaults :
          DoInjectHookSource(hookPath, fault)
    \/ \E pin \in HookPins : DoWriteEnvrc(pin, "")

SpecHook == InitHook /\ [][NextHook]_vars

----------------------------------------------------------------------------
(* The activation line: WriteEnvrc of pins with every combination of mode  *)
(* and optional fields, some of which need quoting.                        *)

RenderPins ==
    [User : {<<"a">>}, Dir : {EnvrcDir}, Mode : Modes,
     GitEmail : {<<>>, <<"e">>, <<"e", " ">>},
     GitName : {<<>>, <<"n", " ", "n">>},
     SSHKey : {<<>>, <<"/", "k">>}]

InitRender ==
    /\ registry = <<>>
    /\ shell = NoShell
    /\ sess = NoSess
    /\ pinsFile = NoFile
    /\ configDir = NoDir
    /\ envrc = [d \in EnvrcDirs |-> NoFile]
    /\ rcFile = NoFile
    /\ pc = "api"
    /\ call = NoCall

NextRender == \E pin \in RenderPins : DoWriteEnvrc(pin, "")

SpecRender == InitRender /\ [][NextRender]_vars

----------------------------------------------------------------------------
(* shellQuote as a function: a string is given, shellQuote returns its     *)
(* quoted form.                                                            *)

\* a safe character, the quote, a blank, the backslash, the dollar sign
QuoteChars == {"a", "'", " ", "\\", "$"}

InitQuote ==
    /\ registry = <<>>
    /\ shell = NoShell
    /\ sess = NoSess
    /\ pinsFile = NoFile
    /\ configDir = NoDir
    /\ envrc = [d \in EnvrcDirs |-> NoFile]
    /\ rcFile = NoFile
    /\ pc = "input"
    /\ \E s \in SeqsUpTo(QuoteChars, MaxStrLen) : call = [NoCall EXCEPT !.arg = s]

DoShellQuote ==
    /\ pc = "input"
    /\ pc' = "quoted"
    /\ call' = [call EXCEPT !.op = "shellQuote", !.out = shellQuote(call.arg)]
    /\ UNCHANGED <<registry, pinsFile, configDir, envrc, rcFile, shell, sess>>

NextQuote == DoShellQuote

SpecQuote == InitQuote /\ [][NextQuote]_vars

----------------------------------------------------------------------------
(* The shell hook (hook.sh) in an interactive session: the prompt cycle    *)
(* _gh_autoprofile_hook, the gh and git functions it defines, and the      *)
(* direnv library functions that set the marker GH_AUTOPROFILE_USER.       *)
(* An unset variable and an empty one are the same to every test the       *)
(* scripts make; both are the empty string here.                           *)

\* what `gh auth token --user u` prints for an account that is logged in
TokenOf(user) == <<"T">> \o user

\* a GH_TOKEN the user exported without gh-autoprofile
AmbientToken == <<"T", "x">>

\* ${GH_TOKEN:+1}
HasToken(env) == IF env.token # <<>> THEN <<"1">> ELSE <<>>

\* _gh_autoprofile_hook without the comparison with the memoized pair
gh_autoprofile_hookNoMemo(env, h) ==
    LET current_user == env.user
    IN IF current_user # <<>> /\ env.token = <<>>
       THEN [lastUser |-> current_user, lastHasToken |-> <<>>,
             gh |-> TRUE, git |-> TRUE, branch |-> "wrapper"]
       ELSE IF current_user # <<>> /\ env.token # <<>>
       THEN [lastUser |-> current_user, lastHasToken |-> <<"1">>,
             gh |-> FALSE, git |-> FALSE, branch |-> "export"]
       ELSE [lastUser |-> <<>>, lastHasToken |-> <<>>,
             gh |-> FALSE, git |-> FALSE, branch |-> "inactive"]

\* _gh_autoprofile_hook with the functions left in place in export mode
gh_autoprofile_hookKeep(env, h) ==
    LET current_user == env.user
        has_token == HasToken(env)
    IN IF current_user = h.lastUser /\ has_token = h.lastHasToken
       THEN [h EXCEPT !.branch = "skip"]
       ELSE IF current_user # <<>> /\ env.token = <<>>
       THEN [lastUser |-> current_user, lastHasToken |-> <<>>,
             gh |-> TRUE, git |-> TRUE, branch |-> "wrapper"]
       ELSE IF current_user # <<>> /\ env.token # <<>>
       THEN [lastUser |-> current_user, lastHasToken |-> <<"1">>,
             gh |-> h.gh, git |-> h.git, branch |-> "export"]
       ELSE [lastUser |-> <<>>, lastHasToken |-> <<>>,
             gh |-> FALSE, git |-> FALSE, branch |-> "inactive"]

\* _gh_autoprofile_hook: env is [user, token], the values of
\* GH_AUTOPROFILE_USER and GH_TOKEN; h is [lastUser, lastHasToken, gh, git,
\* branch], the memoized pair, whether the functions gh and git are defined,
\* and the branch the last cycle took
gh_autoprofile_hook(env, h) ==
    LET current_user == env.user
        has_token == HasToken(env)
    IN IF current_user = h.lastUser /\ has_token = h.lastHasToken
       THEN [h EXCEPT !.branch = "skip"]
       ELSE IF current_user # <<>> /\ env.token = <<>>
       THEN [lastUser |-> current_user, lastHasToken |-> <<>>,
             gh |-> TRUE, git |-> TRUE, branch |-> "wrapper"]
       ELSE IF current_user # <<>> /\ env.token # <<>>
       THEN [lastUser |-> current_user, lastHasToken |-> <<"1">>,
             gh |-> FALSE, git |-> FALSE, branch |-> "export"]
       ELSE [lastUser |-> <<>>, lastHasToken |-> <<>>,
             gh |-> FALSE, git |-> FALSE, branch |-> "inactive"]

\* use_gh_autoprofile: [ok, env]; token is the answer of the provider
use_gh_autoprofile(env, user, token) ==
    IF user = <<>> THEN [ok |-> FALSE, env |-> env]
    ELSE IF token = <<>> THEN [ok |-> FALSE, env |-> env]
    ELSE [ok |-> TRUE, env |-> [env EXCEPT !.user = user]]

\* use_gh_autoprofile_export: [ok, env]
use_gh_autoprofile_export(env, user, token) ==
    IF user = <<>> THEN [ok |-> FALSE, env |-> env]
    ELSE IF token = <<>> THEN [ok |-> FALSE, env |-> env]
    ELSE [ok |-> TRUE, env |-> [user |-> user, token |-> token]]

\* a command that exports the token instead of passing it to the child
CommandWithExported(env, token) ==
    [session |-> [env EXCEPT !.token = token], child |-> token]

\* GH_TOKEN="$_token" command gh "$@": [session, child], the environment of
\* the session afterwards and the GH_TOKEN the child process sees
CommandWith(env, token) == [session |-> env, child |-> token]

\* command gh "$@": the child process inherits the session's environment
Command(env) == [session |-> env, child |-> env.token]

\* a function that never writes the warning
WrapperWarnsNever(name, token) == FALSE

\* whether the function `name` writes the warning when the provider gave
\* `token`: the else branch of gh echoes it, the else branch of git does not
WrapperWarns(name, token) == name = "gh" /\ token = <<>>

\* the signals a prompt cycle observes: (marker_value, token_present)
Observed(env) == [user |-> env.user, has |-> HasToken(env)]

\* five prompt cycles: no profile, alice in wrapper mode twice, alice with a
\* token in the environment, no profile
Script ==
    << [user |-> <<>>, has |-> <<>>],
       [user |-> <<"a">>, has |-> <<>>],
       [user |-> <<"a">>, has |-> <<>>],
       [user |-> <<"a">>, has |-> <<"1">>],
       [user |-> <<>>, has |-> <<>>] >>

CmdNames == {"gh", "git"}
CmdArgs == {<<"x">>, <<"y">>}

\* the tokens the credential provider can print for `user`: none when the
\* account is not logged in, and none for an empty user name
ProviderAnswers(user) == {<<>>} \cup {TokenOf(u) : u \in {user} \ {<<>>}}

\* a hook.sh without the guard of its first lines
source_hookAgain(sh) ==
    [sh EXCEPT !.loaded = TRUE,
               !.hook.lastUser = <<>>,
               !.hook.lastHasToken = <<>>,
               !.hooks = @ + 1]

\* the top level of hook.sh: the guard, the memo, the function definitions
\* and the registration in the prompt cycle; the functions gh and git are
\* defined by the hook only
source_hook(sh) ==
    IF sh.loaded THEN sh
    ELSE [sh EXCEPT !.loaded = TRUE,
                    !.hook.lastUser = <<>>,
                    !.hook.lastHasToken = <<>>,
                    !.hooks = @ + 1]

\* the session before it has read the startup file is ShellInit with
\* loaded = FALSE
ShellInit(token) ==
    [NoShell EXCEPT !.env.token = token, !.saved = token]

InitShell ==
    /\ registry = <<>>
    /\ sess = NoSess
    /\ InitFiles
    /\ rcFile = NoFile
    /\ pc = "shell"
    /\ call = NoCall
    /\ \E token \in {<<>>, AmbientToken} :
          shell = [ShellInit(token) EXCEPT !.loaded = FALSE, !.hooks = 0,
                                           !.wpc = "rc"]

\* the shell reads its startup file, or the user sources it again:
\* `source hook.sh`
SourceHook ==
    /\ shell.wpc \in {"rc", "prompt"}
    /\ shell' = [source_hook(shell) EXCEPT !.wpc = "prompt"]
    /\ call' = [NoCall EXCEPT !.op = "source"]
    /\ UNCHANGED <<registry, pinsFile, configDir, envrc, rcFile, pc, sess>>

\* direnv loads the .envrc of a pinned directory: the activation line calls
\* use_gh_autoprofile; direnv remembers the environment it started from
DoUseGhAutoprofile(user, token) ==
    LET r == use_gh_autoprofile(shell.env, user, token)
    IN /\ shell.wpc = "prompt"
       /\ shell.mode = ""
       /\ shell' = [shell EXCEPT !.env = r.env,
                                 !.saved = shell.env.token,
                                 !.mode = IF r.ok THEN ModeWrapper ELSE @]
       /\ call' = [NoCall EXCEPT !.op = "use_gh_autoprofile", !.arg = user,
                                 !.ok = r.ok]
       /\ UNCHANGED <<registry, pinsFile, configDir, envrc, rcFile, pc, sess>>

DoUseGhAutoprofileExport(user, token) ==
    LET r == use_gh_autoprofile_export(shell.env, user, token)
    IN /\ shell.wpc = "prompt"
       /\ shell.mode = ""
       /\ shell' = [shell EXCEPT !.env = r.env,
                                 !.saved = shell.env.token,
                                 !.mode = IF r.ok THEN ModeExport ELSE @]
       /\ call' = [NoCall EXCEPT !.op = "use_gh_autoprofile_export",
                                 !.arg = user, !.ok = r.ok]
       /\ UNCHANGED <<registry, pinsFile, configDir, envrc, rcFile, pc, sess>>

\* the session leaves the pinned directory: direnv takes back what the
\* .envrc exported
DoUnload ==
    /\ shell.wpc = "prompt"
    /\ shell.mode # ""
    /\ shell' = [shell EXCEPT !.env = [user |-> <<>>, token |-> shell.saved],
                              !.mode = ""]
    /\ call' = [NoCall EXCEPT !.op = "unload"]
    /\ UNCHANGED <<registry, pinsFile, configDir, envrc, rcFile, pc, sess>>

\* the user exports or unsets GH_TOKEN at the prompt
DoSetToken(token) ==
    /\ shell.wpc = "prompt"
    /\ shell.env.token # token
    /\ shell' = [shell EXCEPT !.env.token = token]
    /\ call' = [NoCall EXCEPT !.op = "export"]
    /\ UNCHANGED <<registry, pinsFile, configDir, envrc, rcFile, pc, sess>>

\* precmd / PROMPT_COMMAND runs _gh_autoprofile_hook before a prompt.
\* hist keeps, for the properties, what the last cycle and the one before it
\* observed, the hook's state before the last cycle, and the cycles of the
\* session so far while they observe the signals of Script.
PromptCycle ==
    LET r == gh_autoprofile_hook(shell.env, shell.hook)
        obs == Observed(shell.env)
        h == shell.hist
        n == Len(h.trace)
        follows == h.onScript /\ n < Len(Script) /\ Script[n + 1] = obs
    IN /\ shell.wpc = "prompt"
       /\ shell' = [shell EXCEPT
              !.hook = r,
              !.hist = [cycles |-> IF h.cycles < 2 THEN h.cycles + 1 ELSE 2,
                        obs |-> obs,
                        prev |-> h.obs,
                        before |-> shell.hook,
                        trace |-> IF follows
                                  THEN Append(h.trace, [branch |-> r.branch,
                                           gh |-> r.gh, git |-> r.git])
                                  ELSE h.trace,
                        onScript |-> follows]]
       /\ call' = [NoCall EXCEPT !.op = "_gh_autoprofile_hook"]
       /\ UNCHANGED <<registry, pinsFile, configDir, envrc, rcFile, pc, sess>>

\* the user types `gh ...` or `git ...`: the function of that name when the
\* hook has defined it (it starts with the query to the credential
\* provider), the program itself otherwise
Invoke(name, args) ==
    /\ shell.wpc = "prompt"
    /\ IF shell.hook[name]
       THEN shell' = [shell EXCEPT !.wpc = "query",
                         !.cmd = [name |-> name, args |-> args]]
       ELSE shell' = [shell EXCEPT !.wpc = "child",
                         !.cmd = [name |-> name, args |-> args],
                         !.child = [name |-> name, args |-> args,
                                    token |-> Command(shell.env).child,
                                    wrapped |-> FALSE]]
    /\ call' = [NoCall EXCEPT !.op = name]
    /\ UNCHANGED <<registry, pinsFile, configDir, envrc, rcFile, pc, sess>>

\* `command gh auth token --user "$GH_AUTOPROFILE_USER"` returns
ProviderAnswer(token) ==
    /\ shell.wpc = "query"
    /\ shell' = [shell EXCEPT !.wpc = "answered", !.wtoken = token]
    /\ call' = [NoCall EXCEPT !.op = "gh auth token", !.out = token]
    /\ UNCHANGED <<registry, pinsFile, configDir, envrc, rcFile, pc, sess>>

\* the rest of the function: the command with the token, or the warning and
\* the command as it is
WrapperRun ==
    LET name == shell.cmd.name
        r == IF shell.wtoken # <<>> THEN CommandWith(shell.env, shell.wtoken)
             ELSE Command(shell.env)
    IN /\ shell.wpc = "answered"
       /\ shell' = [shell EXCEPT
              !.wpc = "child",
              !.env = r.session,
              !.warned = WrapperWarns(name, shell.wtoken),
              !.child = [name |-> name, args |-> shell.cmd.args,
                         token |-> r.child, wrapped |-> TRUE]]
       /\ call' = [NoCall EXCEPT !.op = name]
       /\ UNCHANGED <<registry, pinsFile, configDir, envrc, rcFile, pc, sess>>

\* the command ends and the shell returns to the prompt
ChildExit ==
    /\ shell.wpc = "child"
    /\ shell' = [shell EXCEPT !.wpc = "prompt", !.cmd = NoShell.cmd,
                              !.child = NoShell.child, !.wtoken = <<>>,
                              !.warned = FALSE]
    /\ call' = [NoCall EXCEPT !.op = "exit"]
    /\ UNCHANGED <<registry, pinsFile, configDir, envrc, rcFile, pc, sess>>

NextShell ==
    \/ SourceHook
    \/ \E user \in Users \cup {<<>>}, p \in BOOLEAN :
          \E token \in {IF p THEN TokenOf(user) ELSE <<>>} :
             DoUseGhAutoprofile(user, token)
    \/ \E user \in Users \cup {<<>>}, p \in BOOLEAN :
          \E token \in {IF p THEN TokenOf(user) ELSE <<>>} :
             DoUseGhAutoprofileExport(user, token)
    \/ DoUnload
    \/ \E token \in {<<>>, AmbientToken} : DoSetToken(token)
    \/ PromptCycle
    \/ \E name \in CmdNames, args \in CmdArgs : Invoke(name, args)
    \/ \E token \in ProviderAnswers(shell.env.user) : ProviderAnswer(token)
    \/ WrapperRun
    \/ ChildExit

SpecShell == InitShell /\ [][NextShell]_vars

\* the shell runs the rest of a function once the command substitution has
\* returned; nothing makes the credential provider answer
SpecShellFair == SpecShell /\ WF_vars(WrapperRun)

----------------------------------------------------------------------------
(* Several terminal sessions run `pin` and `unpin` at the same time.  Each *)
(* process loads the registry, changes its own copy and saves it; nothing  *)
(* locks pins.yml.  os.WriteFile is OpenFile(O_WRONLY|O_CREATE|O_TRUNC)     *)
(* followed by Write: the file is empty in between, and a Write puts the   *)
(* bytes at offset 0 of whatever the file holds by then.  The pins of this *)
(* part have records of one length, so the bytes are kept by record.       *)

Sessions == {"s1", "s2"}

SessDirs == {[abs |-> TRUE, segs |-> <<s>>] : s \in {"a", "b"}}

SessPins == {WithDir(PlainPin, d) : d \in SessDirs}

\* what is left of a file when "pins: []" lands on the start of a longer one
Unparsable == << <<"?", <<>>>> >>

\* Write at offset 0 of a file that holds `old`
Overlay(data, old) ==
    IF Len(old) <= Len(data) THEN data
    ELSE IF data = <<>> THEN <<Unparsable>>
    ELSE data \o SubSeq(old, Len(data) + 1, Len(old))

\* OpenFile(name, O_WRONLY|O_CREATE|O_TRUNC, perm)
OpenTrunc(f, perm) ==
    [exists |-> TRUE, perm |-> IF f.exists THEN f.perm ELSE perm, data |-> <<>>]

IdleProc == [pc |-> "idle", op |-> "", dir |-> NoPath, reg |-> <<>>,
             fresh |-> FALSE]

\* proc: the process of each session.  For the properties: promised, the
\* directories whose pin has returned success with no operation on them
\* since; kept, those of them saved by an operation that overlapped no other;
\* none of any session has the file open
InitSessions ==
    /\ registry = <<>>
    /\ shell = NoShell
    /\ InitFiles
    /\ rcFile = NoFile
    /\ pc = "sessions"
    /\ call = NoCall
    /\ sess = [proc |-> [s \in Sessions |-> IdleProc],
               promised |-> {}, kept |-> {}]

Writing(s) == sess.proc[s].pc = "opened"

\* runPin / runUnpin up to the change of the copy: LoadPins, (FindPin,)
\* AddPin or RemovePin
SessLoad(s, op, pin) ==
    LET r == LoadPins(pinsFile, FALSE)
        found == FindPin(r.pins, pin.Dir) # 0
        ok == r.ok /\ (op = "unpin" => found)
        reg == IF op = "pin" THEN AddPin(r.pins, pin)
               ELSE RemovePin(r.pins, pin.Dir).pins
    IN /\ sess.proc[s].pc = "idle"
       /\ Len(reg) <= MaxPins
       /\ IF ok
          THEN sess' = [sess EXCEPT
                  !.proc[s] = [pc |-> "mutated", op |-> op, dir |-> pin.Dir,
                               reg |-> reg,
                               fresh |-> \A o \in Sessions : ~Writing(o)],
                  !.promised = @ \ {pin.Dir},
                  !.kept = @ \ {pin.Dir}]
          ELSE sess' = sess
       /\ call' = [NoCall EXCEPT !.op = "LoadPins", !.ok = ok]
       /\ UNCHANGED <<registry, pinsFile, configDir, envrc, rcFile, pc, shell>>

\* SavePins up to the opening of the file: MkdirAll, Marshal, OpenFile
SessOpen(s) ==
    /\ sess.proc[s].pc = "mutated"
    /\ configDir' = MkdirAll(configDir, Perm0700)
    /\ pinsFile' = OpenTrunc(pinsFile, Perm0600)
    /\ sess' = [sess EXCEPT
          !.proc = [o \in Sessions |->
                      IF o = s THEN [@[o] EXCEPT !.pc = "opened"]
                      ELSE IF @[o].pc \in {"mutated", "opened"}
                      THEN [@[o] EXCEPT !.fresh = FALSE]
                      ELSE @[o]],
          !.kept = IF sess.proc[s].fresh THEN @ ELSE {}]
    /\ call' = [NoCall EXCEPT !.op = "OpenFile"]
    /\ UNCHANGED <<registry, envrc, rcFile, pc, shell>>

\* the Write and Close of os.WriteFile; SavePins returns nil
SessWrite(s) ==
    LET p == sess.proc[s]
        clean == p.fresh /\ \A o \in Sessions \ {s} : ~Writing(o)
    IN /\ p.pc = "opened"
       /\ pinsFile' = [pinsFile EXCEPT
                          !.data = Overlay(Marshal(p.reg), pinsFile.data)]
       /\ sess' = [sess EXCEPT
             !.proc[s].pc = "saved",
             !.kept = IF ~clean THEN {}
                      ELSE IF p.op = "pin" THEN @ \cup {p.dir} ELSE @]
       /\ call' = [NoCall EXCEPT !.op = "WriteFile", !.before = p.reg]
       /\ UNCHANGED <<registry, configDir, envrc, rcFile, pc, shell>>

\* the command reports success and the process ends
SessReturn(s) ==
    LET p == sess.proc[s]
    IN /\ p.pc = "saved"
       /\ sess' = [sess EXCEPT
             !.proc[s] = IdleProc,
             !.promised = IF p.op = "pin" THEN @ \cup {p.dir} ELSE @]
       /\ call' = [NoCall EXCEPT !.op = p.op, !.ok = TRUE]
       /\ UNCHANGED <<registry, pinsFile, configDir, envrc, rcFile, pc, shell>>

NextSessions ==
    \/ \E s \in Sessions, op \in {"pin", "unpin"}, pin \in SessPins :
          SessLoad(s, op, pin)
    \/ \E s \in Sessions : SessOpen(s)
    \/ \E s \in Sessions : SessWrite(s)
    \/ \E s \in Sessions : SessReturn(s)

SpecSessions == InitSessions /\ [][NextSessions]_vars

----------------------------------------------------------------------------
(* The commands `pin` and `unpin` of one session, each from its first      *)
(* statement to its return: runPin and runUnpin.  fault names the one call *)
(* that fails, if any.                                                     *)

\* ghauth.ValidateUser: GetToken returned (token, err)
ValidateUser(token, err) == ~err /\ token # <<>>

\* the flags of `pin`: --git-email, --git-name, --ssh-key, --export-token
CmdInputs ==
    {in \in [user : {<<"a">>}, dir : {EnvrcDir},
             gitEmail : {<<>>, <<"e">>}, gitName : {<<>>, <<"n">>},
             sshKey : {<<>>, <<"/", "k">>}, exportToken : BOOLEAN] :
        /\ (in.gitEmail = <<>>) = (in.sshKey = <<>>)
        /\ in.gitEmail = <<>> => in.gitName = <<>>
        /\ in.exportToken => in.gitEmail = <<>>}

\* flags that render to different blocks, with an email that holds marker text
CleanInputs ==
    {in \in [user : {<<"a">>}, dir : {EnvrcDir},
             gitEmail : {<<>>, <<"e">>, markerEnd}, gitName : {<<>>},
             sshKey : {<<>>}, exportToken : BOOLEAN] :
        in.exportToken => in.gitEmail = <<>>}

\* a runPin that validates the account after it has written
runPinValidateLast(in, pf, cd, ef, fault) ==
    LET pin == [User |-> in.user, Dir |-> Abs(in.dir),
                Mode |-> IF in.exportToken THEN ModeExport ELSE ModeWrapper,
                GitEmail |-> in.gitEmail, GitName |-> in.gitName,
                SSHKey |-> in.sshKey]
        l == LoadPins(pf, FALSE)
        s == SavePins(AddPin(l.pins, pin), cd, pf, FALSE, FALSE)
        w == WriteEnvrc(ef, pin, "")
    IN [ok |-> ValidateUser(IF fault = "empty" THEN <<>> ELSE TokenOf(in.user),
                            fault = "token"),
        pinsFile |-> s.file, configDir |-> s.dir, envrc |-> w.file, pin |-> pin]

\* runPin: [ok, pinsFile, configDir, envrc, pin]; pf, cd and ef are pins.yml,
\* its directory and the .envrc of the directory
runPin(in, pf, cd, ef, fault) ==
    LET pin == [User |-> in.user, Dir |-> Abs(in.dir),
                Mode |-> IF in.exportToken THEN ModeExport ELSE ModeWrapper,
                GitEmail |-> in.gitEmail, GitName |-> in.gitName,
                SSHKey |-> in.sshKey]
        failed == [ok |-> FALSE, pinsFile |-> pf, configDir |-> cd,
                   envrc |-> ef, pin |-> pin]
        l == LoadPins(pf, fault = "load")
        s == SavePins(AddPin(l.pins, pin), cd, pf, fault = "mkdir", fault = "save")
        w == WriteEnvrc(ef, pin, IF fault \in Faults THEN fault ELSE "")
    IN IF fault = "stat" THEN failed
       ELSE IF ~ValidateUser(IF fault = "empty" THEN <<>> ELSE TokenOf(in.user),
                             fault = "token")
       THEN failed
       ELSE IF in.sshKey # <<>> /\ fault = "sshkey" THEN failed
       ELSE IF fault = "lib" THEN failed
       ELSE IF ~l.ok THEN failed
       ELSE IF ~s.ok THEN [failed EXCEPT !.configDir = s.dir]
       ELSE [ok |-> w.ok, pinsFile |-> s.file, configDir |-> s.dir,
             envrc |-> w.file, pin |-> pin]

\* a runUnpin that does not look the directory up
runUnpinForce(dir, pf, cd, ef, fault) ==
    LET absDir == Abs(dir)
        failed == [ok |-> FALSE, pinsFile |-> pf, configDir |-> cd, envrc |-> ef]
        l == LoadPins(pf, fault = "load")
        s == SavePins(RemovePin(l.pins, absDir).pins, cd, pf,
                      fault = "mkdir", fault = "save")
        r == RemoveEnvrc(ef, IF fault \in Faults THEN fault ELSE "")
    IN IF ~l.ok THEN failed
       ELSE IF ~s.ok THEN [failed EXCEPT !.configDir = s.dir]
       ELSE [ok |-> r.ok, pinsFile |-> s.file, configDir |-> s.dir,
             envrc |-> r.file]

\* runUnpin: [ok, pinsFile, configDir, envrc]
runUnpin(dir, pf, cd, ef, fault) ==
    LET absDir == Abs(dir)
        failed == [ok |-> FALSE, pinsFile |-> pf, configDir |-> cd, envrc |-> ef]
        l == LoadPins(pf, fault = "load")
        s == SavePins(RemovePin(l.pins, absDir).pins, cd, pf,
                      fault = "mkdir", fault = "save")
        r == RemoveEnvrc(ef, IF fault \in Faults THEN fault ELSE "")
    IN IF ~l.ok THEN failed
       ELSE IF FindPin(l.pins, absDir) = 0 THEN failed
       ELSE IF ~s.ok THEN [failed EXCEPT !.configDir = s.dir]
       ELSE [ok |-> r.ok, pinsFile |-> s.file, configDir |-> s.dir,
             envrc |-> r.file]

\* no registry yet; the .envrc is missing, or holds text of the user, or a
\* block of an earlier installation
InitCmd ==
    /\ registry = <<>>
    /\ shell = NoShell
    /\ sess = NoSess
    /\ pinsFile = NoFile
    /\ configDir = NoDir
    /\ \E f \in {NoFile} \cup
                {[exists |-> TRUE, perm |-> Perm0644, data |-> t] :
                    t \in {<<>>, <<"x">>, <<"x", NL>>} \cup ManagedText} :
          envrc = [d \in EnvrcDirs |-> f]
    /\ rcFile = NoFile
    /\ pc = "cli"
    /\ call = NoCall

DoRunPin(in, fault) ==
    LET d == Abs(in.dir)
        r == runPin(in, pinsFile, configDir, envrc[d], fault)
    IN /\ pc = "cli"
       /\ pc' = "returned"
       /\ Len(r.envrc.data) <= MaxFileLen
       /\ pinsFile' = r.pinsFile
       /\ configDir' = r.configDir
       /\ envrc' = [envrc EXCEPT ![d] = r.envrc]
       /\ call' = [NoCall EXCEPT !.op = "runPin", !.pin = r.pin, !.ok = r.ok,
                                 !.arg = fault]
       /\ UNCHANGED <<registry, rcFile, shell, sess>>

DoRunUnpin(dir, fault) ==
    LET d == Abs(dir)
        r == runUnpin(dir, pinsFile, configDir, envrc[d], fault)
    IN /\ pc = "cli"
       /\ pc' = "returned"
       /\ Len(r.envrc.data) <= MaxFileLen
       /\ pinsFile' = r.pinsFile
       /\ configDir' = r.configDir
       /\ envrc' = [envrc EXCEPT ![d] = r.envrc]
       /\ call' = [NoCall EXCEPT !.op = "runUnpin", !.dir = d, !.ok = r.ok,
                                 !.arg = fault]
       /\ UNCHANGED <<registry, rcFile, shell, sess>>

\* the process has ended and the user is back at the command line
CmdReturn ==
    /\ pc = "returned"
    /\ pc' = "cli"
    /\ call' = NoCall
    /\ UNCHANGED <<registry, pinsFile, configDir, envrc, rcFile, shell, sess>>

NextCmd ==
    \/ \E in \in CmdInputs :
          \E fault \in {"", "stat", "token", "empty", "sshkey", "lib", "load",
                        "mkdir", "save", "read", "write", "chmod", "allow"} :
             DoRunPin(in, fault)
    \/ \E dir \in EnvrcDirs :
          \E fault \in {"", "load", "mkdir", "save", "read", "write"} :
             DoRunUnpin(dir, fault)
    \/ CmdReturn

SpecCmd == InitCmd /\ [][NextCmd]_vars

\* the same commands where no .envrc holds marker text at the start
InitCmdClean ==
    /\ InitCmd
    /\ \/ ~envrc[EnvrcDir].exists
       \/ /\ ~Contains(envrc[EnvrcDir].data, markerStart)
          /\ ~Contains(envrc[EnvrcDir].data, markerEnd)

\* commands that meet no failure
NextCmdClean ==
    \/ \E in \in CleanInputs : DoRunPin(in, "")
    \/ \E dir \in EnvrcDirs : DoRunUnpin(dir, "")
    \/ CmdReturn

SpecCmdClean == InitCmdClean /\ [][NextCmdClean]_vars

----------------------------------------------------------------------------
(* setup --migrate on a registry that an earlier version wrote: records    *)
(* with and without a mode, in a file and a directory with the old         *)
(* permissions.                                                            *)

\* pins of a registry file; the second directory was deleted since
MigratePins ==
    [User : {<<"a">>}, Dir : {EnvrcDir, [abs |-> TRUE, segs |-> <<"b">>]},
     Mode : Modes,
     GitEmail : {<<>>, <<"e">>}, GitName : {<<>>}, SSHKey : {<<>>}]

\* the loop over the pins: the .envrc of every pin whose directory exists is
\* rewritten, a failure is counted and the loop goes on
RECURSIVE RewriteAll(_, _, _)
RewriteAll(ef, pins, fault) ==
    IF pins = <<>> THEN ef
    ELSE LET pin == Head(pins)
             w == WriteEnvrc(ef[pin.Dir], pin, IF fault \in Faults THEN fault ELSE "")
         IN IF pin.Dir \notin DOMAIN ef THEN RewriteAll(ef, Tail(pins), fault)
            ELSE RewriteAll([ef EXCEPT ![pin.Dir] = w.file], Tail(pins), fault)

\* a migration that sets the mode of every pin to wrapper
runMigrationAllWrapper(pf, cd, ef, fault) ==
    LET l == LoadPins(pf, fault = "load")
        cd1 == IF cd.exists THEN Chmod(cd, Perm0700) ELSE cd
        pf1 == IF pf.exists THEN Chmod(pf, Perm0600) ELSE pf
        pins == [i \in 1..Len(l.pins) |-> [l.pins[i] EXCEPT !.Mode = ModeWrapper]]
        s == SavePins(pins, cd1, pf1, fault = "mkdir", fault = "save")
    IN IF ~l.ok
       THEN [ok |-> FALSE, pinsFile |-> pf, configDir |-> cd, envrc |-> ef, updated |-> 0]
       ELSE IF Len(pins) > 0 /\ ~s.ok
       THEN [ok |-> FALSE, pinsFile |-> pf1, configDir |-> s.dir, envrc |-> ef,
             updated |-> 0]
       ELSE [ok |-> TRUE,
             pinsFile |-> IF Len(pins) > 0 THEN s.file ELSE pf1,
             configDir |-> IF Len(pins) > 0 THEN s.dir ELSE cd1,
             envrc |-> RewriteAll(ef, pins, fault),
             updated |-> Len(pins)]

\* runMigration: [ok, pinsFile, configDir, envrc, updated]
runMigration(pf, cd, ef, fault) ==
    LET l == LoadPins(pf, fault = "load")
        cd1 == IF cd.exists THEN Chmod(cd, Perm0700) ELSE cd
        pf1 == IF pf.exists THEN Chmod(pf, Perm0600) ELSE pf
        pins == [i \in 1..Len(l.pins) |->
                    IF l.pins[i].Mode = ""
                    THEN [l.pins[i] EXCEPT !.Mode = ModeWrapper]
                    ELSE l.pins[i]]
        updatedMode == Cardinality({i \in 1..Len(l.pins) : l.pins[i].Mode = ""})
        s == SavePins(pins, cd1, pf1, fault = "mkdir", fault = "save")
    IN IF ~l.ok
       THEN [ok |-> FALSE, pinsFile |-> pf, configDir |-> cd, envrc |-> ef, updated |-> 0]
       ELSE IF updatedMode > 0 /\ ~s.ok
       THEN [ok |-> FALSE, pinsFile |-> pf1, configDir |-> s.dir, envrc |-> ef,
             updated |-> 0]
       ELSE [ok |-> TRUE,
             pinsFile |-> IF updatedMode > 0 THEN s.file ELSE pf1,
             configDir |-> IF updatedMode > 0 THEN s.dir ELSE cd1,
             envrc |-> RewriteAll(ef, pins, fault),
             updated |-> updatedMode]

InitMigrate ==
    /\ registry = <<>>
    /\ shell = NoShell
    /\ sess = NoSess
    /\ \E pins \in {r \in SeqsUpTo(MigratePins, MaxPins) :
                       \A i, j \in 1..Len(r) : i # j => r[i].Dir # r[j].Dir} :
          \/ /\ pins = <<>>
             /\ pinsFile = NoFile
             /\ configDir = NoDir
          \/ /\ pinsFile = [exists |-> TRUE, perm |-> Perm0644, data |-> Marshal(pins)]
             /\ configDir = [exists |-> TRUE, perm |-> Perm0755]
    /\ \E f \in {NoFile} \cup
                {[exists |-> TRUE, perm |-> Perm0644, data |-> t] :
                    t \in {<<"x", NL>>} \cup ManagedText} :
          envrc = [d \in EnvrcDirs |-> f]
    /\ rcFile = NoFile
    /\ pc = "cli"
    /\ call = NoCall

DoRunMigration(fault) ==
    LET r == runMigration(pinsFile, configDir, envrc, fault)
    IN /\ pc = "cli"
       /\ pc' = "returned"
       /\ \A d \in EnvrcDirs : Len(r.envrc[d].data) <= MaxFileLen
       /\ pinsFile' = r.pinsFile
       /\ configDir' = r.configDir
       /\ envrc' = r.envrc
       /\ call' = [NoCall EXCEPT !.op = "runMigration", !.ok = r.ok,
                                 !.idx = r.updated, !.arg = fault]
       /\ UNCHANGED <<registry, rcFile, shell, sess>>

NextMigrate ==
    \/ \E fault \in {"", "load", "mkdir", "save", "read", "write", "chmod"} :
          DoRunMigration(fault)
    \/ CmdReturn

SpecMigrate == InitMigrate /\ [][NextMigrate]_vars

----------------------------------------------------------------------------
(* Properties of the registry methods *)

CanonPin(pin) == [pin EXCEPT !.Dir = Abs(pin.Dir)]

HasDir(pins, d) == \E i \in 1..Len(pins) : pins[i].Dir = d

WithoutDir(pins, d) == LET keep(p) == p.Dir # d IN SelectSeq(pins, keep)

\* C1: after any sequence of AddPin and RemovePin from the empty registry, no
\* two entries of the registry name the same directory.
C1_DirsUnique ==
    \A i, j \in 1..Len(registry) :
        i # j => Abs(registry[i].Dir) # Abs(registry[j].Dir)

\* an AddPin on a full registry has just replaced an entry
C1_Witness ==
    /\ call.op = "AddPin"
    /\ Len(call.before) = MaxPins
    /\ Len(registry) = MaxPins
    /\ registry # call.before

\* C2: AddPin of a pin for directory d1 leaves every entry for a directory
\* d2 # d1 equal in every field and at the index it had.
C2_AddPinFrame ==
    call.op = "AddPin" =>
        \A i \in 1..Len(call.before) :
            call.before[i].Dir # Abs(call.pin.Dir) =>
                /\ i <= Len(registry)
                /\ registry[i] = call.before[i]

\* an AddPin replaced the first of two entries; the second is another directory
C2_Witness ==
    /\ call.op = "AddPin"
    /\ Len(call.before) = 2
    /\ call.before[1].Dir = Abs(call.pin.Dir)
    /\ call.before[1] # CanonPin(call.pin)
    /\ call.before[2].Dir # Abs(call.pin.Dir)

\* C3: AddPin of p2 on a registry holding p1 for the same directory stores p2
\* field for field: an optional field set in p1 and empty in p2 is empty
\* afterwards, and the mode is p2's.
C3_FullReplace ==
    (call.op = "AddPin" /\ HasDir(call.before, Abs(call.pin.Dir))) =>
        LET j == FindPin(registry, call.pin.Dir) IN
        /\ j # 0
        /\ \A f \in FieldNames : registry[j][f] = call.pin[f]
        /\ registry[j].Dir = Abs(call.pin.Dir)
        /\ \A f \in {"GitEmail", "GitName", "SSHKey"} :
              call.pin[f] = <<>> => registry[j][f] = <<>>

\* a pin with an email was re-pinned without one
C3_Witness ==
    /\ call.op = "AddPin"
    /\ \E i \in 1..Len(call.before) :
          /\ call.before[i].Dir = Abs(call.pin.Dir)
          /\ call.before[i].GitEmail # <<>>
    /\ call.pin.GitEmail = <<>>

\* C4: AddPin replaces an entry for the same directory at its index and
\* keeps the length; without such an entry it appends the pin as the last
\* element; the other entries keep their order.
C4_ReplaceOrAppend ==
    call.op = "AddPin" =>
        LET d == Abs(call.pin.Dir)
            i == IndexOfDir(call.before, d)
        IN IF i # 0
           THEN /\ Len(registry) = Len(call.before)
                /\ registry[i] = CanonPin(call.pin)
                /\ \A k \in 1..Len(registry) : k # i => registry[k] = call.before[k]
           ELSE /\ Len(registry) = Len(call.before) + 1
                /\ registry[Len(registry)] = CanonPin(call.pin)
                /\ SubSeq(registry, 1, Len(call.before)) = call.before

\* a pin for a new directory was added to a non-empty registry
C4_Witness ==
    /\ call.op = "AddPin"
    /\ call.before # <<>>
    /\ ~HasDir(call.before, Abs(call.pin.Dir))
    /\ Len(registry) = Len(call.before) + 1

\* C5: FindPin(d) returns an entry exactly when a stored directory equals
\* the canonical d, and that entry; for a strict ancestor or descendant of a
\* pinned directory that is not itself pinned it returns nil.
C5_FindExact ==
    call.op = "FindPin" =>
        LET d == Abs(call.dir) IN
        /\ call.idx # 0 <=> HasDir(registry, d)
        /\ call.idx # 0 => registry[call.idx].Dir = d
        /\ ( /\ ~HasDir(registry, d)
             /\ \E i \in 1..Len(registry) :
                   \/ StrictAncestor(d, registry[i].Dir)
                   \/ StrictAncestor(registry[i].Dir, d) )
           => call.idx = 0

\* FindPin was called on an unpinned directory below a pinned one
C5_Witness ==
    /\ call.op = "FindPin"
    /\ ~HasDir(registry, Abs(call.dir))
    /\ \E i \in 1..Len(registry) : StrictAncestor(registry[i].Dir, Abs(call.dir))
    /\ call.idx = 0

----------------------------------------------------------------------------
(* Properties of the registry file *)

\* C7: a LoadPins that follows a successful SavePins(r) yields the pins of r
\* in the same order, equal field for field, and a pin of r without a mode
\* loads with the wrapper mode as its effective mode.
C7_SaveLoadRoundTrip ==
    [][ ( /\ call.op = "SavePins" /\ call.ok
          /\ call'.op = "LoadPins" /\ call'.ok )
        => /\ registry' = call.before
           /\ Len(registry') = Len(call.before)
           /\ \A i \in 1..Len(call.before) :
                 /\ \A f \in FieldNames \cup {"Dir"} : registry'[i][f] = call.before[i][f]
                 /\ call.before[i].Mode = "" => EffectiveMode(registry'[i]) = ModeWrapper
      ]_vars

\* two pins were saved and loaded again; one has no mode, the other an ssh key
C7_Witness ==
    /\ call.op = "LoadPins"
    /\ call.ok
    /\ Len(registry) = 2
    /\ \E i \in 1..2 : registry[i].Mode = ""
    /\ \E i \in 1..2 : registry[i].SSHKey # <<>>
    /\ pinsFile.exists
    /\ Unmarshal(pinsFile.data) = registry

\* C8: LoadPins on a missing pins.yml returns the empty registry and no
\* error, and an AddPin on that registry leaves exactly the added pin.
C8_LoadMissing ==
    [][ /\ (call'.op = "LoadPins" /\ call' # call /\ ~pinsFile.exists)
           => (call'.ok /\ registry' = <<>> /\ pc' = "loaded")
        /\ (call.op = "LoadPins" /\ ~pinsFile.exists /\ call'.op = "AddPin")
           => (registry' = <<CanonPin(call'.pin)>> /\ pc' = "mutated")
      ]_vars

\* the first pin was added to the registry loaded from a missing file
C8_Witness ==
    /\ call.op = "AddPin"
    /\ ~pinsFile.exists
    /\ pc = "mutated"
    /\ Len(registry) = 1

----------------------------------------------------------------------------
(* Properties of the managed block of .envrc *)

\* the states of an .envrc file: missing, empty, without marker text, holding
\* one well-formed block, holding a start marker and no end marker
IsMissing(f) == ~f.exists
IsEmpty(f) == f.exists /\ f.data = <<>>
IsUnmarked(f) ==
    f.exists /\ f.data # <<>> /\ ~Contains(f.data, markerStart) /\ ~Contains(f.data, markerEnd)
IsWellFormed(f) ==
    /\ f.exists
    /\ Count(f.data, markerStart) = 1
    /\ Count(f.data, markerEnd) = 1
    /\ Index(f.data, markerStart) < Index(f.data, markerEnd)
IsMalformed(f) ==
    f.exists /\ Contains(f.data, markerStart) /\ ~Contains(f.data, markerEnd)

\* C9: from a file that is missing, empty, without markers, holding one
\* well-formed block or holding a start marker without an end marker, a
\* second WriteEnvrc of the same pin leaves the content the first one left.
C9_UpsertIdempotent ==
    [][ ( /\ call.op = "WriteEnvrc" /\ call.ok
          /\ \/ IsMissing(call.file) \/ IsEmpty(call.file) \/ IsUnmarked(call.file)
             \/ IsWellFormed(call.file) \/ IsMalformed(call.file)
          /\ call'.op = "WriteEnvrc" /\ call'.ok
          /\ call'.pin = call.pin )
        => envrc'[EnvrcDir].data = envrc[EnvrcDir].data
      ]_vars

\* C10: WriteEnvrc on a file in which a start marker is followed by an end
\* marker yields prefix + new block + suffix, where the prefix ends before the
\* first start marker and the suffix begins after the first end marker that
\* follows it and one newline; the block of the result is the new block.
C10_ReplaceSpan ==
    LET c == call.file.data
        si == Index(c, markerStart)
        ei == IndexFrom(c, markerEnd, si + Len(markerStart))
        e1 == ei + Len(markerEnd)
        e2 == IF e1 < Len(c) /\ c[e1 + 1] = NL THEN e1 + 1 ELSE e1
        prefix == Slice(c, 0, si)
        suffix == Slice(c, e2, Len(c))
        new == envrc[EnvrcDir].data
    IN ( /\ call.op = "WriteEnvrc" /\ call.ok
         /\ si # -1
         /\ ei # -1 )
       => /\ new = prefix \o Block(call.pin) \o suffix
          /\ Index(new, markerStart) = Len(prefix)

\* C11: a successful RemoveEnvrc that directly follows a successful WriteEnvrc
\* deletes the file if it was missing before the WriteEnvrc, and leaves
\* exactly the content before the WriteEnvrc if the file was non-empty.
C11_RemoveUndoesUpsert ==
    [][ ( /\ call.op = "WriteEnvrc" /\ call.ok
          /\ call'.op = "RemoveEnvrc" /\ call'.ok )
        => /\ IsMissing(call.file) => ~envrc'[EnvrcDir].exists
           /\ (call.file.exists /\ call.file.data # <<>>)
                 => /\ envrc'[EnvrcDir].exists
                    /\ envrc'[EnvrcDir].data = call.file.data
      ]_vars

\* C12: after any sequence of WriteEnvrc and RemoveEnvrc on an .envrc that was
\* missing or held no marker text, the file holds at most one start marker
\* and at most one end marker.
C12_AtMostOneBlock ==
    /\ Count(envrc[EnvrcDir].data, markerStart) <= 1
    /\ Count(envrc[EnvrcDir].data, markerEnd) <= 1

\* C13: WriteEnvrc on a file that holds a start marker and no end marker
\* succeeds when no file operation fails, keeps the whole content as a prefix
\* of the result and appends one new block at the end of the file.
C13_MalformedAppend ==
    [][ ( call'.op = "WriteEnvrc" /\ IsMalformed(envrc[EnvrcDir]) ) =>
          \A pin \in EnvrcPins :
             DoWriteEnvrc(pin, "")
             => LET c == envrc[EnvrcDir].data
                    new == envrc'[EnvrcDir].data
                    sep == IF HasSuffix(c, <<NL>>) THEN <<>> ELSE <<NL>>
                IN /\ call'.ok
                   /\ envrc'[EnvrcDir].exists
                   /\ IsPrefix(c, new)
                   /\ new = c \o sep \o Block(pin)
                   /\ Index(new, markerStart) = Index(c, markerStart)
      ]_vars

\* a block was appended to a file that ends in an orphan start marker
C13_Witness ==
    /\ call.op = "WriteEnvrc"
    /\ call.ok
    /\ IsMalformed(call.file)
    /\ ~HasSuffix(call.file.data, <<NL>>)
    /\ envrc[EnvrcDir].data = call.file.data \o <<NL>> \o Block(call.pin)

\* C15: a successful RemoveEnvrc leaves a file that is missing or has no start
\* marker as it is; on a file with a start marker it deletes the span from the
\* start marker to the end marker that follows it and one newline, deletes
\* the file if the trimmed remainder is empty and else writes the trimmed
\* remainder and one newline, so that no start marker remains.
C15_RemoveSpan ==
    LET c == call.file.data
        f == envrc[EnvrcDir]
        si == Index(c, markerStart)
        ei == IndexFrom(c, markerEnd, si + Len(markerStart))
        e1 == ei + Len(markerEnd)
        e2 == IF e1 < Len(c) /\ c[e1 + 1] = NL THEN e1 + 1 ELSE e1
        rest == TrimSpace(Slice(c, 0, si) \o Slice(c, e2, Len(c)))
    IN (call.op = "RemoveEnvrc" /\ call.ok) =>
          IF IsMissing(call.file) \/ si = -1
          THEN f = call.file
          ELSE /\ ei # -1 => IF rest = <<>> THEN ~f.exists
                             ELSE f.exists /\ f.data = rest \o <<NL>>
               /\ ~Contains(f.data, markerStart)

\* C16: after a successful WriteEnvrc, and after a successful RemoveEnvrc that
\* rewrote the file, the .envrc has permissions 0600.
C16_EnvrcOwnerOnly ==
    LET f == envrc[EnvrcDir] IN
    /\ (call.op = "WriteEnvrc" /\ call.ok) => (f.exists /\ f.perm = Perm0600)
    /\ (call.op = "RemoveEnvrc" /\ call.ok /\ f.exists /\ f.data # call.file.data)
          => f.perm = Perm0600

\* RemoveEnvrc rewrote a file that had permissions 0644
C16_Witness ==
    /\ call.op = "RemoveEnvrc"
    /\ call.ok
    /\ call.file.perm = Perm0644
    /\ envrc[EnvrcDir].exists
    /\ envrc[EnvrcDir].data # call.file.data
    /\ envrc[EnvrcDir].perm = Perm0600

\* content followed by block, with a newline between them only if content is
\* non-empty and does not end in one
AppendBlock(content, block) ==
    content \o
    (IF content # <<>> /\ ~HasSuffix(content, <<NL>>) THEN <<NL>> ELSE <<>>) \o
    block

\* C14: WriteEnvrc on a file without its start marker, and InjectHookSource
\* on a file without its start marker, yield the content, a newline only if
\* the content is non-empty and lacks a trailing newline, and the block; a
\* missing or empty file becomes exactly the block.
C14_AppendNoStart ==
    /\ ( /\ call.op = "WriteEnvrc" /\ call.ok
         /\ ~Contains(call.file.data, markerStart) )
       => envrc[EnvrcDir].data = AppendBlock(call.file.data, Block(call.pin))
    /\ ( /\ call.op = "InjectHookSource" /\ call.ok
         /\ ~Contains(call.file.data, hookMarkerStart) )
       => rcFile.data = AppendBlock(call.file.data, HookBlock(call.arg))

\* C14 as amended: WriteEnvrc as above; InjectHookSource on a file without
\* its start marker yields the content, a newline only if the content is
\* non-empty and lacks a trailing newline, one more newline, and the block,
\* so that a missing or empty file becomes a newline and the block.
C14_AppendNoStartAmended ==
    /\ ( /\ call.op = "WriteEnvrc" /\ call.ok
         /\ ~Contains(call.file.data, markerStart) )
       => /\ envrc[EnvrcDir].data = AppendBlock(call.file.data, Block(call.pin))
          /\ call.file.data = <<>> => envrc[EnvrcDir].data = Block(call.pin)
    /\ ( /\ call.op = "InjectHookSource" /\ call.ok
         /\ ~Contains(call.file.data, hookMarkerStart) )
       => /\ rcFile.data =
                AppendBlock(call.file.data, <<NL>> \o HookBlock(call.arg))
          /\ call.file.data = <<>> => rcFile.data = <<NL>> \o HookBlock(call.arg)

\* InjectHookSource created the startup file, and the .envrc holds a block
\* that WriteEnvrc appended to text without a trailing newline
C14_Witness ==
    /\ call.op = "InjectHookSource"
    /\ call.ok
    /\ IsMissing(call.file)
    /\ rcFile.data = <<NL>> \o HookBlock(call.arg)
    /\ \E pin \in HookPins : envrc[EnvrcDir].data = <<"x", NL>> \o Block(pin)

\* C17: after a successful SavePins, pins.yml has permissions 0600 and its
\* directory has permissions 0700, whether or not they existed before.
C17_StoreOwnerOnly ==
    (call.op = "SavePins" /\ call.ok) =>
        /\ pinsFile.exists /\ pinsFile.perm = Perm0600
        /\ configDir.exists /\ configDir.perm = Perm0700

----------------------------------------------------------------------------
(* Properties of the activation line *)

\* the second line of a file
ActivationLine(data) ==
    LET i == Index(data, <<NL>>)
        j == IndexFrom(data, <<NL>>, i + 1)
    IN Slice(data, i + 1, j)

\* the fields of a pin in the order of the positional arguments
ArgFields(pin) == <<pin.User, pin.GitEmail, pin.GitName, pin.SSHKey>>

\* the number of leading fields without an unset optional field among them
SetPrefixLen(pin) ==
    CHOOSE n \in 1..4 :
        /\ \A i \in 2..n : ArgFields(pin)[i] # <<>>
        /\ n < 4 => ArgFields(pin)[n + 1] = <<>>

\* C18: the activation line of a block is use_gh_autoprofile_export for an
\* export pin and use_gh_autoprofile for any other mode, followed by the
\* quoted account, email, name and ssh key in this order up to the first
\* unset field: no argument follows an unset one.
C18_ActivationLine ==
    (call.op = "WriteEnvrc" /\ call.ok) =>
        LET pin == call.pin
            entry == IF pin.Mode = ModeExport THEN <<"u", "x">> ELSE <<"u">>
            quoted == [i \in 1..SetPrefixLen(pin) |-> shellQuote(ArgFields(pin)[i])]
        IN ActivationLine(envrc[EnvrcDir].data) =
               entry \o <<" ">> \o Join(quoted, <<" ">>)

\* an export pin with a name and no email was rendered: only the account
C18_Witness ==
    /\ call.op = "WriteEnvrc"
    /\ call.ok
    /\ call.pin.Mode = ModeExport
    /\ call.pin.GitEmail = <<>>
    /\ call.pin.GitName # <<>>
    /\ ActivationLine(envrc[EnvrcDir].data) = <<"u", "x", " ", "a">>

\* the result of a shell word that cannot be read as literal text
ShellError == <<<<"error">>>>

RECURSIVE ShellParse(_, _, _, _, _, _)
\* the words a POSIX shell reads from t[i..]: quoted tells whether i is
\* inside single quotes, cur is the word read so far, started whether a word
\* has begun, words the words completed
ShellParse(t, i, quoted, cur, started, words) ==
    IF i > Len(t)
    THEN IF quoted THEN ShellError
         ELSE IF started THEN Append(words, cur) ELSE words
    ELSE LET c == t[i] IN
         IF quoted
         THEN IF c = "'" THEN ShellParse(t, i + 1, FALSE, cur, TRUE, words)
              ELSE ShellParse(t, i + 1, TRUE, Append(cur, c), TRUE, words)
         ELSE IF IsSpace(c)
              THEN ShellParse(t, i + 1, FALSE, <<>>, FALSE,
                              IF started THEN Append(words, cur) ELSE words)
         ELSE IF c = "'" THEN ShellParse(t, i + 1, TRUE, cur, TRUE, words)
         ELSE IF c = "\\"
              THEN IF i = Len(t) THEN ShellParse(t, i + 1, FALSE, Append(cur, c), TRUE, words)
                   ELSE ShellParse(t, i + 2, FALSE, Append(cur, t[i + 1]), TRUE, words)
         ELSE IF c = "$" /\ i < Len(t) /\ t[i + 1] \in SafeChars
              THEN ShellError
         ELSE ShellParse(t, i + 1, FALSE, Append(cur, c), TRUE, words)

\* the words of the command line t under single-quote, backslash and
\* word-splitting rules
ShellWords(t) == ShellParse(t, 1, FALSE, <<>>, FALSE, <<>>)

\* C19: the shell reads shellQuote(s) as exactly one word, and the word is s.
C19_QuoteRoundTrip ==
    pc = "quoted" => ShellWords(call.out) = <<call.arg>>

\* a string with a quote and a blank was quoted
C19_Witness ==
    /\ pc = "quoted"
    /\ call.arg = <<"a", "'", " ">>
    /\ call.out = <<"'", "a", "'", "\\", "'", "'", " ", "'">>

RECURSIVE Flatten(_)
\* the concatenation of a sequence of strings
Flatten(strs) == IF strs = <<>> THEN <<>> ELSE Head(strs) \o Flatten(Tail(strs))

\* C20: shellQuote(s) is s exactly when s is non-empty and holds safe
\* characters only; otherwise it is s between single quotes with each quote
\* of s replaced by the four characters quote, backslash, quote, quote.
C20_QuoteForm ==
    pc = "quoted" =>
        LET s == call.arg
            out == call.out
            bare == s # <<>> /\ \A i \in 1..Len(s) : s[i] \in SafeChars
            escaped == [i \in 1..Len(s) |->
                           IF s[i] = "'" THEN <<"'", "\\", "'", "'">> ELSE <<s[i]>>]
        IN /\ out = s <=> bare
           /\ ~bare => out = <<"'">> \o Flatten(escaped) \o <<"'">>

\* the empty string was quoted
C20_Witness ==
    /\ pc = "quoted"
    /\ call.arg = <<>>
    /\ call.out = <<"'", "'">>

----------------------------------------------------------------------------
(* Properties of the shell hook *)

Memo(h) == [user |-> h.lastUser, has |-> h.lastHasToken]

\* C21: from the initial state (INACTIVE, no bindings), five prompt cycles
\* that observe (absent,false), (alice,false), (alice,false), (alice,true),
\* (absent,false) make exactly three effective transitions: the first cycle
\* and the repeated pair do nothing, the bindings are created on
\* (alice,false), removed on (alice,true) and removed again on the last.
C21_ScriptTransitions ==
    LET t == shell.hist.trace
    IN Len(t) = Len(Script) =>
          /\ [i \in 1..Len(t) |-> t[i].branch] =
                <<"skip", "wrapper", "skip", "export", "inactive">>
          /\ Cardinality({i \in 1..Len(t) : t[i].branch # "skip"}) = 3
          /\ [i \in 1..Len(t) |-> t[i].gh] = <<FALSE, TRUE, TRUE, FALSE, FALSE>>
          /\ [i \in 1..Len(t) |-> t[i].git] = <<FALSE, TRUE, TRUE, FALSE, FALSE>>

\* the five cycles of the script have run
C21_Witness ==
    /\ Len(shell.hist.trace) = Len(Script)
    /\ shell.hist.onScript

\* C22: a prompt cycle that observes the same pair (marker_value,
\* token_present) as the cycle before it takes the early return: it runs no
\* function definition, no unset -f and no assignment, so the bindings and
\* the memoized pair are what they were; this for every pair, marker absent
\* with a token present included.
C22_SameSignalsNoOp ==
    (shell.hist.cycles = 2 /\ shell.hist.obs = shell.hist.prev) =>
        /\ shell.hook.branch = "skip"
        /\ shell.hook.gh = shell.hist.before.gh
        /\ shell.hook.git = shell.hist.before.git
        /\ Memo(shell.hook) = Memo(shell.hist.before)

C24_MemoIsObserved ==
    (shell.hist.cycles >= 1 /\ shell.hist.obs # shell.hist.prev) =>
        Memo(shell.hook) = shell.hist.obs

\* C25: with no token in the session's environment, use_gh_autoprofile
\* changes only the marker, and neither a prompt cycle nor a call of the gh
\* or git function puts a token into it; the token the provider gave is in
\* the environment of the child process only.
C25_TokenStaysOut ==
    [][/\ (call'.op \in {"use_gh_autoprofile", "_gh_autoprofile_hook",
                         "gh", "git", "gh auth token"}
           /\ shell.env.token = <<>>)
          => shell'.env.token = <<>>
       /\ call'.op = "use_gh_autoprofile"
          => shell'.env.token = shell.env.token
       /\ (shell.wpc = "answered" /\ shell'.wpc = "child"
           /\ shell.wtoken # <<>>)
          => /\ shell'.child.token = shell.wtoken
             /\ shell'.env = shell.env]_vars

\* a child process runs with a token the session does not have
C25_Witness ==
    /\ shell.wpc = "child"
    /\ shell.child.wrapped
    /\ shell.child.token # <<>>
    /\ shell.env.token = <<>>
    /\ shell.mode = ModeWrapper

\* the command a function has started after the provider gave no token
FellBack ==
    /\ shell.wpc = "child"
    /\ shell.child.wrapped
    /\ shell.wtoken = <<>>

\* the fallback runs the command itself with the user's arguments and the
\* session's environment
RunsUnmodified ==
    /\ shell.child.name = shell.cmd.name
    /\ shell.child.args = shell.cmd.args
    /\ shell.child.token = shell.env.token

C27_QueryBounded == (shell.wpc = "query") ~> (shell.wpc = "child")

\* C30: after a prompt cycle in a session whose marker was set by
\* use_gh_autoprofile (a wrapper-mode pin) and that has a GH_TOKEN of its
\* own, the functions gh and git are defined; a gh or git command started
\* in such a session runs with the token of the pinned account.
C30_WrapperOverridesToken ==
    /\ (/\ call.op = "_gh_autoprofile_hook"
        /\ shell.mode = ModeWrapper
        /\ shell.env.token # <<>>)
       => (shell.hook.gh /\ shell.hook.git)
    /\ (/\ shell.wpc = "child"
        /\ shell.mode = ModeWrapper
        /\ shell.hist.cycles >= 1
        /\ shell.hist.obs = Observed(shell.env)
        /\ shell.env.token # <<>>)
       => shell.child.token = TokenOf(shell.env.user)

\* C38: sourcing hook.sh in a session that has loaded it has no effect: the
\* hook stays registered once in the prompt cycle, and the memoized pair and
\* the bindings of gh and git are what they were.
C38_SourceAgainNoEffect ==
    [][(call'.op = "source" /\ shell.loaded)
       => /\ shell'.hooks = 1
          /\ shell'.hook = shell.hook
          /\ shell'.env = shell.env]_vars

\* hook.sh was sourced in a session whose hook had bound the wrappers
C38_Witness ==
    /\ call.op = "source"
    /\ shell.hook.gh
    /\ shell.hook.git
    /\ shell.hook.lastUser # <<>>
    /\ shell.hooks = 1

----------------------------------------------------------------------------
(* Properties of concurrent sessions *)

PersistedHas(d) ==
    /\ LoadPins(pinsFile, FALSE).ok
    /\ HasDir(LoadPins(pinsFile, FALSE).pins, d)

NoSaveInProgress == \A s \in Sessions : ~Writing(s)

C29_WholeFileLastWriter ==
    call.op = "WriteFile" => pinsFile.data = Marshal(call.before)

----------------------------------------------------------------------------
(* Properties of the commands pin and unpin *)

\* the entry of the registry file for the directory, NoPin if there is none
Persisted(f, d) ==
    LET pins == LoadPins(f, FALSE).pins
    IN IF FindPin(pins, d) # 0 THEN pins[FindPin(pins, d)] ELSE NoPin

\* the line that follows the first start marker
BlockLine(data) ==
    LET i == Index(data, markerStart) + Len(markerStart) + 1
    IN Slice(data, i, IndexFrom(data, <<NL>>, i))

\* the quoted optional fields of a pin that are set, in the order of the
\* arguments
SetOptional(pin) ==
    LET set(x) == x # <<>>
    IN [i \in 1..Len(SelectSeq(Tail(ArgFields(pin)), set)) |->
           shellQuote(SelectSeq(Tail(ArgFields(pin)), set)[i])]

\* C31: after a successful pin, the activation line in the .envrc of the
\* directory passes every optional field (email, name, ssh key) that is set
\* in the record the registry file holds; a pin with an email and an ssh key
\* and no name passes the ssh key.
C31_SetFieldsPassed ==
    (call.op = "runPin" /\ call.ok) =>
        LET p == Persisted(pinsFile, EnvrcDir)
        IN BlockLine(envrc[EnvrcDir].data) =
              fnName(p) \o <<" ">> \o
              Join(<<shellQuote(p.User)>> \o SetOptional(p), <<" ">>)

\* C32: a pin whose account validation fails (the query fails, or returns an
\* empty token) returns an error and the registry file, its directory and
\* the .envrc are what they were.
C32_ValidationFirst ==
    [][(call'.op = "runPin" /\ call'.arg \in {"token", "empty"})
       => /\ ~call'.ok
          /\ pinsFile' = pinsFile
          /\ configDir' = configDir
          /\ envrc' = envrc]_vars

\* a pin of a directory that is pinned already has failed at the validation
C32_Witness ==
    /\ call.op = "runPin"
    /\ call.arg = "empty"
    /\ ~call.ok
    /\ Persisted(pinsFile, EnvrcDir) # NoPin
    /\ Persisted(pinsFile, EnvrcDir) # call.pin
    /\ Contains(envrc[EnvrcDir].data, markerStart)

\* C35: from an empty registry and an .envrc without marker text, after any
\* sequence of successful pin and unpin commands the directory has a registry
\* entry exactly when its .envrc holds a managed block, and that block is
\* the rendering of the entry.
C35_RegistryMatchesEnvrc ==
    LET p == Persisted(pinsFile, EnvrcDir)
        data == envrc[EnvrcDir].data
    IN /\ (p # NoPin) = Contains(data, markerStart)
       /\ p # NoPin => /\ Count(data, markerStart) = 1
                       /\ Contains(data, Block(p))

\* C36: a pin or unpin that returns an error leaves the registry file and
\* the .envrc of the directory as they were before it started, also when the
\* step that fails is the .envrc write after the registry save.
C36_ErrorChangesNothing ==
    [][(call'.op \in {"runPin", "runUnpin"} /\ ~call'.ok)
       => /\ pinsFile' = pinsFile
          /\ envrc' = envrc]_vars

\* C37: an unpin of a directory without registry entry returns an error,
\* does not write the registry file and leaves the .envrc as it is, also
\* when the .envrc holds a managed block.
C37_UnpinUnknown ==
    [][(/\ call'.op = "runUnpin"
        /\ LoadPins(pinsFile, FALSE).ok
        /\ Persisted(pinsFile, EnvrcDir) = NoPin)
       => /\ ~call'.ok
          /\ pinsFile' = pinsFile
          /\ configDir' = configDir
          /\ envrc' = envrc]_vars

\* an unpin without fault has failed on a directory whose .envrc holds a
\* block and that no registry file knows
C37_Witness ==
    /\ call.op = "runUnpin"
    /\ call.arg = ""
    /\ ~call.ok
    /\ ~pinsFile.exists
    /\ Contains(envrc[EnvrcDir].data, markerStart)

----------------------------------------------------------------------------
(* Properties of the hook source line *)

\* C33: InjectHookSource is idempotent and keeps what the file held: after a
\* successful call the startup file holds one hook start marker, the content
\* of a file that held no hook block before the call is still in it, and a
\* call that repeats the arguments of the call before it leaves the content
\* as it is.
C33_InjectIdempotent ==
    [][(call'.op = "InjectHookSource" /\ call'.ok)
       => /\ Count(rcFile'.data, hookMarkerStart) = 1
          /\ ~Contains(rcFile.data, hookMarkerStart)
                => Contains(rcFile'.data, rcFile.data)
          /\ (call.op = "InjectHookSource" /\ call.ok /\ call.arg = call'.arg)
                => rcFile'.data = rcFile.data]_vars

----------------------------------------------------------------------------
(* Properties of the migration *)

\* C34: after a migration that succeeds no pin of the registry file has an
\* absent mode, every pin that had none has the mode wrapper, and the
\* number, the order, the effective mode and every other field of the pins
\* are what they were.
C34_MigrateBackfillsMode ==
    [][(call'.op = "runMigration" /\ call'.ok)
       => LET before == LoadPins(pinsFile, FALSE).pins
              after == LoadPins(pinsFile', FALSE).pins
          IN /\ Len(after) = Len(before)
             /\ \A i \in 1..Len(before) :
                   /\ after[i].Mode # ""
                   /\ before[i].Mode = "" => after[i].Mode = ModeWrapper
                   /\ EffectiveMode(after[i]) = EffectiveMode(before[i])
                   /\ [after[i] EXCEPT !.Mode = before[i].Mode] = before[i]]_vars

\* a migration has filled in the mode of one pin beside a pin in export mode
C34_Witness ==
    /\ call.op = "runMigration"
    /\ call.ok
    /\ call.idx = 1
    /\ LET pins == LoadPins(pinsFile, FALSE).pins
       IN /\ Len(pins) = 2
          /\ pins[1].Mode = ModeExport
          /\ pins[2].Mode = ModeWrapper
          /\ pins[2].GitEmail # <<>>

====
